---------------------------- MODULE Spec2Model ----------------------------
(***************************************************************************)
(* A model of the UDS (ISO-14229) reconnaissance module of CaringCaribou:  *)
(*   - the protocol client's receive loop  (tool/lib/iso14229_1.py)        *)
(*   - endpoint discovery and the scanners (tool/modules/uds.py)           *)
(* Each component has its own specification (SpecRR, SpecDisc, SpecScan);  *)
(* the variables of the other components stay at their initial values.     *)
(* Bytes are written in decimal; the hexadecimal value is in the comment.  *)
(***************************************************************************)
EXTENDS Integers, Sequences, FiniteSets, TLC

(***************************************************************************)
(* Program constants                                                       *)
(***************************************************************************)
NR_SI == 127                                        \* 0x7F
REQUEST_CORRECTLY_RECEIVED_RESPONSE_PENDING == 120  \* 0x78
SERVICE_NOT_SUPPORTED == 17                         \* 0x11
SUB_FUNCTION_NOT_SUPPORTED == 18                    \* 0x12
INCORRECT_MESSAGE_LENGTH_OR_INVALID_FORMAT == 19    \* 0x13
REQUEST_OUT_OF_RANGE == 49                          \* 0x31
SECURITY_ACCESS_DENIED == 51                        \* 0x33
DIAGNOSTIC_SESSION_CONTROL == 16                    \* 0x10
ROUTINE_CONTROL == 49                               \* 0x31
DSC_POSITIVE == 80                                  \* 0x50
VERIFICATION_BACKTRACK == 5
INPUT_OUTPUT_CONTROL_BY_IDENTIFIER == 47            \* 0x2F
READ_DATA_BY_IDENTIFIER == 34                       \* 0x22
DEFAULT_SESSION == 1
PROGRAMMING_SESSION == 2
EXTENDED_DIAGNOSTIC_SESSION == 3
BYTE_MIN == 0
BYTE_MAX == 255
REQUEST_SEED_MIN == 1
REQUEST_SEED_MAX == 65                              \* 0x41
SEND_KEY_MIN == 2
SEND_KEY_MAX == 66                                  \* 0x42
SUB_FUNC_PARAM_MIN == 0
SUB_FUNC_PARAM_MAX == 127
RETRY_COUNT == 10

\* the identifiers the modelled scans start at
SERVICE_BASE == READ_DATA_BY_IDENTIFIER - 1
ROUTINE_BASE == 515                                 \* -min 0x0203
DID_BASE == 61952                                   \* -min 0xF200

P3_CLIENT == 5

\* Python's None.  Byte strings are sequences of numbers in 0..255; None is
\* the one sequence that is not a byte string, so that a value that may be
\* None can be compared with a message.
None == <<-1>>

(***************************************************************************)
(* Bounds of the model                                                     *)
(***************************************************************************)
\* longest scripted sequence of messages the transport delivers in one call
MaxScript == 2
\* largest wait_window, in clock ticks
MaxWait == 2
\* largest request arbitration id of a discovery scan (ids are 0..MaxArbId)
MaxArbId == 1
\* most frames the bus delivers during one discovery scan
MaxFrames == 4
\* a scanner probes at most MaxScanSpan + 1 identifiers
MaxScanSpan == 2
\* num_seeds of the security seed command is at most MaxSeeds
MaxSeeds == 2
\* the responses given to the pure functions have at most MaxRespLen bytes
MaxRespLen == 2
\* longest list of data identifiers given to read_data_by_identifier
MaxDids == 2
\* number of Iso14229_1 instances looked at
MaxClients == 2
\* scan_session_control probes the sub-functions 0..s_max, s_max being at
\* most MaxSessionSpan (the source always scans up to SUB_FUNC_PARAM_MAX)
MaxSessionSpan == 3
\* the responses given to decode_response have at most MaxDecodeLen bytes
MaxDecodeLen == 3

VARIABLES
    \* ---- Iso14229_1.receive_response ----
    rr_pc,          \* "start", "check", "indication", "done"
    wait_window,    \* the argument of receive_response
    start_time,     \* local start_time
    now,            \* the clock read by time.clock()
    response,       \* local response
    rr_result,      \* the value returned
    rr_timedout,    \* the call returned through line 387
    tp_script,      \* messages the transport will deliver next, in order
    tp_tail,        \* what the transport delivers once the script is used up
    tp_script0,     \* the script at call entry (history)
    \* ---- uds_discovery and __uds_discovery_wrapper ----
    d_pc,           \* position in uds_discovery
    min_id,         \* argument min_id
    max_id,         \* argument max_id
    blacklist_args, \* argument blacklist_args
    auto_blacklist_duration,  \* argument auto_blacklist_duration
    verify,         \* argument verify
    blacklist,      \* local blacklist
    send_arbitration_id,      \* local send_arbitration_id
    msg_arbitration_id,       \* msg.arbitration_id of the hit being handled
    verified,       \* local verified
    verify_idx,     \* position of the for loop in verify_id_range
    found_arbitration_ids,    \* local found_arbitration_ids
    bus_filter,     \* the arbitration id filter installed on the bus
    window_open,    \* the drain window of the current probe may still be open
    tp_state,       \* "never", "open", "closed": the IsoTp of the scan
    d_io,           \* some frame was sent or received (history)
    d_frames,       \* number of frames received so far
    d_probes,       \* ids probed by the outer loop, in order (history)
    d_reprobes,     \* ids re-probed by the current verification (history)
    d_hit,          \* the qualifying reply that started the verification (history)
    d_evidence,     \* for each recorded pair, the replies it rests on and the
                    \* number of outer probes transmitted before it (history)
    d_printed,      \* pairs printed as "Found diagnostics server ..."
    d_returned,     \* the value returned to the wrapper
    d_table,        \* the result table printed by the wrapper
    \* ---- service_discovery and the sub-scanners ----
    s_scanner,      \* which scanner runs
    s_pc,           \* position in the scanner
    s_min,          \* first identifier of the scan range
    s_max,          \* last identifier of the scan range
    s_id,           \* the loop variable (service_id, subfunc_id, routine_id, did)
    s_response,     \* local response (msg in service_discovery)
    s_found,        \* found_services, found_sub_funcs, routine_map, io_control_list
    s_mask,         \* controlEnableMaskRecord
    s_retry_count,  \* retry_count
    s_queue,        \* frames on the bus that were not received yet
    s_requests,     \* the requests transmitted, in order (history)
    s_log,          \* the final reply to each identifier probed (history)
    num_seeds,      \* num_seeds of the security seed command
    level,          \* level (sec_level) of the security seed command
    s_defaults,     \* number of default-session requests transmitted (history)
    s_replies,      \* what was answered to each request: by the server in
                    \* service_discovery, by the protocol client in the
                    \* session and routine scans (history)
    s_cause,        \* for each recorded service, the frame it was read from (history)
    s_interrupted,  \* a KeyboardInterrupt was raised (history)
    s_snapshot,     \* the findings when the interrupt was raised (history)
    s_sent_snapshot,\* the number of requests transmitted when the interrupt was raised (history)
    s_result,       \* the list returned by the scanner
    \* ---- calls of the pure functions ----
    f_fn,           \* the function called
    f_arg,          \* its argument
    f_out,          \* its result
    f_pc,           \* "call" before the call, "done" after it
    \* ---- Iso14229_1 client instances ----
    P3_CLIENT_class,\* the class attribute Iso14229_1.P3_CLIENT
    c_alive,        \* for each client: it has been constructed and is in use
    c_attr,         \* for each client: its instance attribute P3_CLIENT,
                    \* Unset when the instance has none
    c_given,        \* for each client: the timeout a scan set on it (history)
    c_waited        \* for each client: the wait window of its last
                    \* receive_response call (history)

rrVars == <<rr_pc, wait_window, start_time, now, response, rr_result,
            rr_timedout, tp_script, tp_tail, tp_script0>>

discVars == <<d_pc, min_id, max_id, blacklist_args, auto_blacklist_duration,
              verify, blacklist, send_arbitration_id, msg_arbitration_id,
              verified, verify_idx, found_arbitration_ids, bus_filter,
              window_open, tp_state, d_io, d_frames, d_probes, d_reprobes,
              d_hit, d_evidence, d_printed, d_returned, d_table>>

scanVars == <<s_scanner, s_pc, s_min, s_max, s_id, s_response, s_found,
              s_mask, s_retry_count, s_queue, s_requests, s_defaults,
              s_replies, s_cause, s_log, num_seeds, level, s_interrupted, s_snapshot,
              s_sent_snapshot, s_result>>

fnVars == <<f_fn, f_arg, f_out, f_pc>>

clientVars == <<P3_CLIENT_class, c_alive, c_attr, c_given, c_waited>>

vars == <<rrVars, discVars, scanVars, fnVars, clientVars>>

\* the variables a step of receive_response leaves alone
notRR == <<discVars, scanVars, fnVars, clientVars>>
\* the variables a step of uds_discovery leaves alone
notDisc == <<rrVars, scanVars, fnVars, clientVars>>
\* the variables a step of a scanner leaves alone
notScan == <<rrVars, discVars, fnVars, clientVars>>
\* the variables a call of a pure function leaves alone
notFn == <<rrVars, discVars, scanVars, clientVars>>
\* the variables a step of a client instance leaves alone
notClient == <<rrVars, discVars, scanVars, fnVars>>

(***************************************************************************)
(* Messages after transport reassembly                                     *)
(***************************************************************************)
Pending3 == <<NR_SI, DIAGNOSTIC_SESSION_CONTROL, REQUEST_CORRECTLY_RECEIVED_RESPONSE_PENDING>>
Pending4 == <<NR_SI, DIAGNOSTIC_SESSION_CONTROL, REQUEST_CORRECTLY_RECEIVED_RESPONSE_PENDING, 0>>
PositiveDSC == <<DSC_POSITIVE, 3, 0, 0, 0, 0>>
NegativeDSC == <<NR_SI, DIAGNOSTIC_SESSION_CONTROL, SUB_FUNCTION_NOT_SUPPORTED>>
NegativeDSC4 == <<NR_SI, DIAGNOSTIC_SESSION_CONTROL, SUB_FUNCTION_NOT_SUPPORTED, 0>>
EmptyMsg == << >>

RRMessages == {Pending3, Pending4, PositiveDSC, NegativeDSC, NegativeDSC4, EmptyMsg}

\* all sequences over S of length at most n
SeqsUpTo(S, n) == UNION {[1..k -> S] : k \in 0..n}

(***************************************************************************)
(* Iso14229_1.receive_response                                             *)
(***************************************************************************)
\* a pending-response message in the sense of the protocol (section 3 of the
\* specification): a negative response whose NRC is 0x78
IsPendingMessage(m) ==
    /\ m # None
    /\ Len(m) >= 3
    /\ m[1] = NR_SI
    /\ m[3] = REQUEST_CORRECTLY_RECEIVED_RESPONSE_PENDING

\* the test of lines 390-392 that makes the loop continue
SuppressesResponse(r) ==
    /\ r # None
    /\ Len(r) > 3
    /\ r[1] = NR_SI
    /\ r[3] = REQUEST_CORRECTLY_RECEIVED_RESPONSE_PENDING

\* line 383: start_time = time.clock()
RRStart ==
    /\ rr_pc = "start"
    /\ start_time' = now
    /\ rr_pc' = "check"
    /\ UNCHANGED <<wait_window, now, response, rr_result, rr_timedout,
                   tp_script, tp_tail, tp_script0>>
    /\ UNCHANGED notRR

\* the clock advances while the call runs.  Only the comparison
\* (now - start_time) > wait_window is ever read, so the clock is not
\* advanced further once it exceeds the window.
Tick ==
    /\ rr_pc \in {"check", "indication"}
    /\ now - start_time <= wait_window
    /\ now' = now + 1
    /\ UNCHANGED <<rr_pc, wait_window, start_time, response, rr_result,
                   rr_timedout, tp_script, tp_tail, tp_script0>>
    /\ UNCHANGED notRR

\* lines 385-387: the deadline test at the head of the loop
RRCheck ==
    /\ rr_pc = "check"
    /\ IF (now - start_time) > wait_window
         THEN /\ rr_pc' = "done"
              /\ rr_result' = None
              /\ rr_timedout' = TRUE
         ELSE /\ rr_pc' = "indication"
              /\ UNCHANGED <<rr_result, rr_timedout>>
    /\ UNCHANGED <<wait_window, start_time, now, response,
                   tp_script, tp_tail, tp_script0>>
    /\ UNCHANGED notRR

\* what the transport hands over next
TpNext == IF tp_script # << >> THEN Head(tp_script) ELSE tp_tail

\* lines 389-395: response = self.tp.indication(wait_window), then the
\* pending-response test; "continue" goes back to the deadline test,
\* "break" returns the response
RRIndication ==
    /\ rr_pc = "indication"
    /\ response' = TpNext
    /\ tp_script' = IF tp_script # << >> THEN Tail(tp_script) ELSE tp_script
    /\ IF SuppressesResponse(response')
         THEN /\ rr_pc' = "check"
              /\ UNCHANGED rr_result
         ELSE /\ rr_pc' = "done"
              /\ rr_result' = response'
    /\ UNCHANGED <<wait_window, start_time, now, rr_timedout, tp_tail, tp_script0>>
    /\ UNCHANGED notRR

InitRRVars ==
    /\ rr_pc = "start"
    /\ wait_window \in 1..MaxWait
    /\ start_time = 0
    /\ now \in 0..1
    /\ response = None
    /\ rr_result = None
    /\ rr_timedout = FALSE
    /\ tp_script \in SeqsUpTo(RRMessages, MaxScript)
    /\ tp_tail \in {None, Pending3, Pending4}
    /\ tp_script0 = tp_script

\* the state of a client on which receive_response is not running
IdleRR ==
    /\ rr_pc = "idle"
    /\ wait_window = 1
    /\ start_time = 0
    /\ now = 0
    /\ response = None
    /\ rr_result = None
    /\ rr_timedout = FALSE
    /\ tp_script = << >>
    /\ tp_tail = None
    /\ tp_script0 = << >>

NextRR ==
    \/ RRStart
    \/ Tick
    \/ RRCheck
    \/ RRIndication

(***************************************************************************)
(* uds_discovery and its command wrapper                                   *)
(***************************************************************************)
\* arbitration ids the servers on the bus answer from
RespIds == {MaxArbId + 6, MaxArbId + 7}
\* "no arbitration id": no filter installed, no message being handled
NoId == -100

\* raw CAN frames: byte 0 is the ISO-TP frame header, the message follows
PositiveDSCFrame == <<6, DSC_POSITIVE, 1, 0, 50, 1, 244>>
NegativeDSCFrame == <<3, NR_SI, DIAGNOSTIC_SESSION_CONTROL, SERVICE_NOT_SUPPORTED>>
OtherFrame == <<2, 126, 0>>
ShortFrame == <<0>>
DiscData == {PositiveDSCFrame, NegativeDSCFrame, OtherFrame, ShortFrame}
DiscFrames == [arbitration_id : RespIds, data : DiscData]

\* Services.DiagnosticSessionControl.valid_responses
DSCValidResponses == {NR_SI, DSC_POSITIVE}

\* lines 151-152: is_valid_response(message); data[1] of the source is the
\* second byte, data[2] here
is_valid_response(message) ==
    /\ Len(message.data) >= 2
    /\ message.data[2] \in DSCValidResponses

\* a sanity check that forgets auto_blacklist_duration
ArgsInvalidRangeOnly(mn, mx, abd) == mx < mn

\* lines 142-145: the sanity checks that raise ValueError
ArgsInvalid(mn, mx, abd) == mx < mn \/ abd < 0

\* a blacklist that is never consulted
IsBlacklistedNever(arb_id, bl) == FALSE

\* line 180: msg.arbitration_id in blacklist
IsBlacklisted(arb_id, bl) == arb_id \in bl

\* an outer loop that skips every other id
NextSendIdSkipping(send) == send + 2

\* line 167: send_arbitration_id += 1
NextSendId(send) == send + 1

\* an outer loop that resumes after the candidate whatever id answered
ResumeAtCandidate(candidate, that_id) == candidate

\* line 211: send_arbitration_id = verification_arbitration_id
ResumeAt(candidate, that_id) == that_id

\* a verification that walks upwards from the candidate
VerifyIdRangeAscending(send) == [i \in 1..VERIFICATION_BACKTRACK |-> send + (i - 1)]

\* a verification that backtracks one id too far
VerifyIdRangeTooFar(send) == [i \in 1..(VERIFICATION_BACKTRACK + 1) |-> send - (i - 1)]

\* line 192: verify_id_range = range(send_arbitration_id,
\*                                   send_arbitration_id - VERIFICATION_BACKTRACK, -1)
VerifyIdRange(send) == [i \in 1..VERIFICATION_BACKTRACK |-> send - (i - 1)]

\* a filter that is removed after a successful verification only
ClearFiltersOnSuccess(was_verified, installed) ==
    IF was_verified THEN NoId ELSE installed

\* line 223: tp.clear_filters(), reached after the for loop of the
\* verification whether or not it set verified
ClearFilters(was_verified, installed) == NoId

\* a wrapper that runs the scan silently
PrintResultsOff == FALSE

\* line 251: the wrapper calls uds_discovery with print_results = True
PrintResults == TRUE

\* lines 142-145
DiscValidate ==
    /\ d_pc = "args"
    /\ d_pc' = IF ArgsInvalid(min_id, max_id, auto_blacklist_duration)
                 THEN "valueerror" ELSE "open"
    /\ UNCHANGED <<min_id, max_id, blacklist_args, auto_blacklist_duration,
                   verify, blacklist, send_arbitration_id, msg_arbitration_id,
                   verified, verify_idx, found_arbitration_ids, bus_filter,
                   window_open, tp_state, d_io, d_frames, d_probes, d_reprobes,
                   d_hit, d_evidence, d_printed, d_returned, d_table>>
    /\ UNCHANGED notDisc

\* lines 156-165: open the transport, build the blacklist (auto_blacklist
\* listens on the bus and returns the ids it saw a valid-shape reply from),
\* prepare the frame and the loop variable
DiscOpen ==
    /\ d_pc = "open"
    /\ tp_state' = "open"
    /\ IF auto_blacklist_duration > 0
         THEN /\ \E auto_blacklist_arb_ids \in SUBSET RespIds :
                    blacklist' = blacklist_args \cup auto_blacklist_arb_ids
              /\ d_io' = TRUE
         ELSE /\ blacklist' = blacklist_args
              /\ UNCHANGED d_io
    /\ send_arbitration_id' = min_id - 1
    /\ d_pc' = "outer"
    /\ UNCHANGED <<min_id, max_id, blacklist_args, auto_blacklist_duration,
                   verify, msg_arbitration_id, verified, verify_idx,
                   found_arbitration_ids, bus_filter, window_open, d_frames,
                   d_probes, d_reprobes, d_hit, d_evidence, d_printed,
                   d_returned, d_table>>
    /\ UNCHANGED notDisc

\* lines 166-173: the head of the outer loop and the probe it transmits
DiscOuter ==
    /\ d_pc = "outer"
    /\ IF send_arbitration_id < max_id
         THEN /\ send_arbitration_id' = NextSendId(send_arbitration_id)
              /\ d_probes' = Append(d_probes, send_arbitration_id')
              /\ d_io' = TRUE
              /\ window_open' = TRUE
              /\ d_pc' = "drain"
         ELSE /\ d_pc' = "return"
              /\ UNCHANGED <<send_arbitration_id, d_probes, d_io, window_open>>
    /\ UNCHANGED <<min_id, max_id, blacklist_args, auto_blacklist_duration,
                   verify, blacklist, msg_arbitration_id, verified, verify_idx,
                   found_arbitration_ids, bus_filter, tp_state, d_frames,
                   d_reprobes, d_hit, d_evidence, d_printed, d_returned, d_table>>
    /\ UNCHANGED notDisc

\* lines 229-237: print the pair and append it to found_arbitration_ids
RecordPair(send, resp, evidence) ==
    /\ found_arbitration_ids' = Append(found_arbitration_ids, <<send, resp>>)
    /\ d_printed' = IF PrintResults THEN d_printed \cup {<<send, resp>>}
                                    ELSE d_printed
    /\ d_evidence' = Append(d_evidence, evidence)

NoReply == [req |-> NoId, resp |-> NoId]

\* lines 175-189 (and 229-237 when verify is off): one frame received in the
\* drain window of the current probe
DiscDrainRecv ==
    /\ d_pc = "drain"
    /\ window_open
    /\ d_frames < MaxFrames
    /\ \E msg \in DiscFrames :
         /\ d_frames' = d_frames + 1
         /\ d_io' = TRUE
         /\ IF IsBlacklisted(msg.arbitration_id, blacklist) \/ ~is_valid_response(msg)
              THEN UNCHANGED <<d_pc, msg_arbitration_id, verified, verify_idx,
                               found_arbitration_ids, bus_filter, d_reprobes,
                               d_hit, d_evidence, d_printed>>
              ELSE IF verify
                THEN /\ verified' = FALSE
                     /\ bus_filter' = msg.arbitration_id
                     /\ msg_arbitration_id' = msg.arbitration_id
                     /\ verify_idx' = 1
                     /\ d_reprobes' = << >>
                     /\ d_hit' = [req |-> d_probes[Len(d_probes)],
                                  resp |-> msg.arbitration_id,
                                  vreq |-> NoId, vresp |-> NoId]
                     /\ d_pc' = "vtransmit"
                     /\ UNCHANGED <<found_arbitration_ids, d_evidence, d_printed>>
                ELSE /\ RecordPair(send_arbitration_id, msg.arbitration_id,
                                   [hit |-> [req |-> d_probes[Len(d_probes)],
                                             resp |-> msg.arbitration_id],
                                    vhit |-> NoReply,
                                    probes |-> Len(d_probes)])
                     /\ msg_arbitration_id' = msg.arbitration_id
                     /\ UNCHANGED <<d_pc, verified, verify_idx, bus_filter,
                                    d_reprobes, d_hit>>
    /\ UNCHANGED <<min_id, max_id, blacklist_args, auto_blacklist_duration,
                   verify, blacklist, send_arbitration_id, window_open,
                   tp_state, d_probes, d_returned, d_table>>
    /\ UNCHANGED notDisc

\* line 175: time.time() >= end_time, the drain window is over
DiscDrainExpire ==
    /\ d_pc = "drain"
    /\ d_pc' = "outer"
    /\ window_open' = FALSE
    /\ UNCHANGED <<min_id, max_id, blacklist_args, auto_blacklist_duration,
                   verify, blacklist, send_arbitration_id, msg_arbitration_id,
                   verified, verify_idx, found_arbitration_ids, bus_filter,
                   tp_state, d_io, d_frames, d_probes, d_reprobes,
                   d_hit, d_evidence, d_printed, d_returned, d_table>>
    /\ UNCHANGED notDisc

\* lines 193-198: re-send the probe to the next id of verify_id_range
DiscVerifTransmit ==
    /\ d_pc = "vtransmit"
    /\ d_reprobes' = Append(d_reprobes, VerifyIdRange(send_arbitration_id)[verify_idx])
    /\ d_io' = TRUE
    /\ d_pc' = "vwait"
    /\ UNCHANGED <<min_id, max_id, blacklist_args, auto_blacklist_duration,
                   verify, blacklist, send_arbitration_id, msg_arbitration_id,
                   verified, verify_idx, found_arbitration_ids, bus_filter,
                   window_open, tp_state, d_frames, d_probes,
                   d_hit, d_evidence, d_printed, d_returned, d_table>>
    /\ UNCHANGED notDisc

\* lines 199-212: one frame received in the verification window.  The bus
\* filter set at line 189 lets through frames of one arbitration id only.
DiscVerifRecv ==
    /\ d_pc = "vwait"
    /\ d_frames < MaxFrames
    /\ \E verification_msg \in DiscFrames :
         /\ bus_filter # NoId => verification_msg.arbitration_id = bus_filter
         /\ d_frames' = d_frames + 1
         /\ d_io' = TRUE
         /\ IF is_valid_response(verification_msg)
              THEN /\ verified' = TRUE
                   /\ send_arbitration_id' =
                          ResumeAt(send_arbitration_id,
                                   VerifyIdRange(send_arbitration_id)[verify_idx])
                   /\ d_hit' = [d_hit EXCEPT !.vreq = d_reprobes[Len(d_reprobes)],
                                             !.vresp = verification_msg.arbitration_id]
                   /\ d_pc' = "vend"
              ELSE UNCHANGED <<verified, send_arbitration_id, d_hit, d_pc>>
    /\ UNCHANGED <<min_id, max_id, blacklist_args, auto_blacklist_duration,
                   verify, blacklist, msg_arbitration_id, verify_idx,
                   found_arbitration_ids, bus_filter, window_open, tp_state,
                   d_probes, d_reprobes, d_evidence, d_printed, d_returned,
                   d_table>>
    /\ UNCHANGED notDisc

\* line 199: the verification window of delay + VERIFICATION_EXTRA_DELAY is
\* over without a valid reply; the for loop goes on or ends.  The window is
\* longer than delay, so the drain window of the outer probe is over too.
DiscVerifExpire ==
    /\ d_pc = "vwait"
    /\ window_open' = FALSE
    /\ IF verify_idx < Len(VerifyIdRange(send_arbitration_id))
         THEN /\ verify_idx' = verify_idx + 1
              /\ d_pc' = "vtransmit"
         ELSE /\ d_pc' = "vend"
              /\ UNCHANGED verify_idx
    /\ UNCHANGED <<min_id, max_id, blacklist_args, auto_blacklist_duration,
                   verify, blacklist, send_arbitration_id, msg_arbitration_id,
                   verified, found_arbitration_ids, bus_filter, tp_state,
                   d_io, d_frames, d_probes, d_reprobes, d_hit, d_evidence,
                   d_printed, d_returned, d_table>>
    /\ UNCHANGED notDisc

\* lines 222-237: remove the filter, then drop the hit or record the pair
DiscVerifEnd ==
    /\ d_pc = "vend"
    /\ bus_filter' = ClearFilters(verified, bus_filter)
    /\ d_io' = TRUE
    /\ IF verified
         THEN RecordPair(send_arbitration_id, msg_arbitration_id,
                         [hit |-> [req |-> d_hit.req, resp |-> d_hit.resp],
                          vhit |-> [req |-> d_hit.vreq, resp |-> d_hit.vresp],
                          probes |-> Len(d_probes)])
         ELSE UNCHANGED <<found_arbitration_ids, d_evidence, d_printed>>
    /\ d_pc' = "drain"
    /\ UNCHANGED <<min_id, max_id, blacklist_args, auto_blacklist_duration,
                   verify, blacklist, send_arbitration_id, msg_arbitration_id,
                   verified, verify_idx, window_open, tp_state, d_frames,
                   d_probes, d_reprobes, d_hit, d_returned, d_table>>
    /\ UNCHANGED notDisc

\* lines 238-240 and 254-267: leave the with block, return the list; the
\* wrapper prints it as a table
DiscReturn ==
    /\ d_pc = "return"
    /\ tp_state' = "closed"
    /\ d_returned' = found_arbitration_ids
    /\ d_table' = found_arbitration_ids
    /\ d_pc' = "done"
    /\ UNCHANGED <<min_id, max_id, blacklist_args, auto_blacklist_duration,
                   verify, blacklist, send_arbitration_id, msg_arbitration_id,
                   verified, verify_idx, found_arbitration_ids, bus_filter,
                   window_open, d_io, d_frames, d_probes, d_reprobes,
                   d_hit, d_evidence, d_printed>>
    /\ UNCHANGED notDisc

\* a KeyboardInterrupt raised anywhere in uds_discovery: neither the function
\* nor its wrapper (lines 253-269, which catches ValueError only) handles it;
\* the with block closes the transport and module_main (lines 1103-1109)
\* prints "Terminated by user"
DiscInterrupt ==
    /\ d_pc \in {"args", "open", "outer", "drain", "vtransmit", "vwait",
                 "vend", "return"}
    /\ d_pc' = "interrupted"
    /\ tp_state' = IF tp_state = "open" THEN "closed" ELSE tp_state
    /\ UNCHANGED <<min_id, max_id, blacklist_args, auto_blacklist_duration,
                   verify, blacklist, send_arbitration_id, msg_arbitration_id,
                   verified, verify_idx, found_arbitration_ids, bus_filter,
                   window_open, d_io, d_frames, d_probes, d_reprobes,
                   d_hit, d_evidence, d_printed, d_returned, d_table>>
    /\ UNCHANGED notDisc

NoHit == [req |-> NoId, resp |-> NoId, vreq |-> NoId, vresp |-> NoId]

\* the state at the call of uds_discovery, given its arguments
DiscEntry ==
    /\ d_pc = "args"
    /\ blacklist = {}
    /\ send_arbitration_id = NoId
    /\ msg_arbitration_id = NoId
    /\ verified = FALSE
    /\ verify_idx = 0
    /\ found_arbitration_ids = << >>
    /\ bus_filter = NoId
    /\ window_open = FALSE
    /\ tp_state = "never"
    /\ d_io = FALSE
    /\ d_frames = 0
    /\ d_probes = << >>
    /\ d_reprobes = << >>
    /\ d_hit = NoHit
    /\ d_evidence = << >>
    /\ d_printed = {}
    /\ d_returned = None
    /\ d_table = None

InitDiscVars ==
    /\ min_id \in 0..1
    /\ max_id \in 0..MaxArbId
    /\ blacklist_args \in {{}, {1, MaxArbId + 6}}
    /\ auto_blacklist_duration \in {-1, 0, 1}
    /\ verify \in BOOLEAN
    /\ DiscEntry

\* the state when no discovery scan runs
IdleDisc ==
    /\ min_id = 0
    /\ max_id = 0
    /\ blacklist_args = {}
    /\ auto_blacklist_duration = 0
    /\ verify = FALSE
    /\ DiscEntry

NextDisc ==
    \/ DiscValidate
    \/ DiscOpen
    \/ DiscOuter
    \/ DiscDrainRecv
    \/ DiscDrainExpire
    \/ DiscVerifTransmit
    \/ DiscVerifRecv
    \/ DiscVerifExpire
    \/ DiscVerifEnd
    \/ DiscReturn
    \/ DiscInterrupt

(***************************************************************************)
(* service_discovery, scan_session_control, scan_routine_control and       *)
(* scan_io_controls: the loop inside the try block of each scanner         *)
(***************************************************************************)
Scanners == {"service", "session", "routine", "io"}
\* the scanners, scan_io_controls being entered through
\* __ext_service_scan_wrapper, and the security seed command
Commands == Scanners \cup {"seed"}

\* the first identifier each scanner probes in the model
ScanBase(scanner) ==
    CASE scanner = "service" -> SERVICE_BASE
      [] scanner = "session" -> SUB_FUNC_PARAM_MIN
      [] scanner = "routine" -> ROUTINE_BASE
      [] scanner = "io"      -> DID_BASE
      [] scanner = "seed"    -> 0

\* where a command starts: scan_io_controls is called by
\* __ext_service_scan_wrapper after extended_session (lines 402-410),
\* scan_routine_control and scan_io_controls build their range first
EntryPc(scanner) ==
    CASE scanner = "io"      -> "ext_session"
      [] scanner = "routine" -> "range"
      [] scanner = "seed"    -> "seed_loop"
      [] OTHER               -> "loop"

NoFrame == <<-2>>

\* raw CAN frames answering the probe of service sid: byte 0 is the ISO-TP
\* header, then the message
NegativeFrame(sid, nrc) == <<3, NR_SI, sid, nrc>>
PositiveFrame(sid, b1) == <<3, sid + 64, b1, 0>>
ShortPositiveFrame(sid) == <<2, sid + 64, 0>>

\* what a server may put on the bus in answer to the probe [sid]
ServiceReplies(sid, ids) ==
    {NegativeFrame(sid, SERVICE_NOT_SUPPORTED),
     NegativeFrame(sid, REQUEST_OUT_OF_RANGE),
     ShortPositiveFrame(sid)}
    \cup {PositiveFrame(sid, b1) : b1 \in ids}

is_positive_response_empty_ok(r) == r # None /\ (Len(r) = 0 \/ r[1] # NR_SI)

\* iso14229_1.py lines 397-408: Iso14229_1.is_positive_response
is_positive_response(r) == r # None /\ Len(r) > 0 /\ r[1] # NR_SI

\* iso14229_1.py lines 577-581: the request of diagnostic_session_control
DiagnosticSessionControlRequest(session_type) ==
    <<DIAGNOSTIC_SESSION_CONTROL, session_type>>

\* the request of routine_control(0x0, routine_id, [1, ..., 1]), called at
\* uds.py line 581: [0x31, sub-function, id high, id low, ten bytes 0x01]
RoutineControlRequest(routine_id) ==
    <<ROUTINE_CONTROL, 0, routine_id \div 256, routine_id % 256>>
        \o [i \in 1..10 |-> 1]

\* what a call of the protocol client may return to scan_session_control
SessionResponses(subfunc_id) ==
    {None,
     <<DSC_POSITIVE, subfunc_id, 0, 50, 1, 244>>,
     <<ROUTINE_CONTROL + 64, subfunc_id>>,
     <<NR_SI, DIAGNOSTIC_SESSION_CONTROL, SUB_FUNCTION_NOT_SUPPORTED>>,
     <<NR_SI, DIAGNOSTIC_SESSION_CONTROL, SECURITY_ACCESS_DENIED>>,
     <<NR_SI, ROUTINE_CONTROL, SECURITY_ACCESS_DENIED>>,
     Pending3,
     <<NR_SI>>}

\* what a call of the protocol client may return to scan_routine_control
RoutineResponses(routine_id) ==
    {None,
     <<NR_SI, ROUTINE_CONTROL, REQUEST_OUT_OF_RANGE>>,
     <<NR_SI, ROUTINE_CONTROL, SUB_FUNCTION_NOT_SUPPORTED>>,
     <<NR_SI, ROUTINE_CONTROL, SECURITY_ACCESS_DENIED>>,
     <<NR_SI, DIAGNOSTIC_SESSION_CONTROL, SUB_FUNCTION_NOT_SUPPORTED>>,
     <<ROUTINE_CONTROL + 64, 0, routine_id \div 256, routine_id % 256>>,
     <<NR_SI, ROUTINE_CONTROL>>}

\* the variables no scanner step changes
scanArgs == <<s_scanner, s_min, s_max, num_seeds, level>>
\* the history of an interrupt
scanIntr == <<s_interrupted, s_snapshot, s_sent_snapshot, s_result>>

\* ---------------------------- service_discovery ---------------------------
\* the first payload byte of a positive reply: any byte, here a service id of
\* the range or zero
PayloadBytes == (s_min..s_max) \cup {0}

\* lines 298-303: the for loop and tp.send_request([service_id]); the server
\* puts its answer, if any, on the bus
ServiceProbe ==
    /\ s_scanner = "service"
    /\ s_pc = "loop"
    /\ IF s_id <= s_max
         THEN /\ s_requests' = Append(s_requests, <<s_id>>)
              /\ \E reply \in ServiceReplies(s_id, PayloadBytes) \cup {NoFrame} :
                    /\ s_queue' = IF reply = NoFrame THEN s_queue
                                                    ELSE Append(s_queue, reply)
                    /\ s_replies' = Append(s_replies, [id |-> s_id, data |-> reply])
              /\ s_pc' = "recv"
         ELSE /\ s_pc' = "return"
              /\ UNCHANGED <<s_requests, s_queue, s_replies>>
    /\ UNCHANGED <<scanArgs, s_log, scanIntr, s_id, s_response, s_found, s_cause,
                   s_mask, s_retry_count, s_defaults>>
    /\ UNCHANGED notScan

\* a reply is appended when the frame has more than 3 bytes and byte 3 is
\* not "service not supported"; the id is read from byte 2
\* (lines 310-316; data[2], data[3] of the source are data[3], data[4] here)
ServiceCounts(data) == Len(data) > 3 /\ data[4] # SERVICE_NOT_SUPPORTED

\* lines 305-316: msg = tp.bus.recv(timeout) and the parsing of the reply.
\* The frame received is the oldest one on the bus, or nothing when the
\* timeout ends first (a slow reply stays on the bus).
ServiceRecv ==
    /\ s_scanner = "service"
    /\ s_pc = "recv"
    /\ \E msg \in (IF s_queue # << >> THEN {Head(s_queue)} ELSE {}) \cup {NoFrame} :
         /\ s_response' = msg
         /\ s_queue' = IF msg = NoFrame THEN s_queue ELSE Tail(s_queue)
         /\ IF msg # NoFrame /\ ServiceCounts(msg)
              THEN /\ s_found' = Append(s_found, msg[3])
                   /\ s_cause' = Append(s_cause, msg)
              ELSE UNCHANGED <<s_found, s_cause>>
    /\ s_id' = s_id + 1
    /\ s_pc' = "loop"
    /\ UNCHANGED <<scanArgs, s_log, scanIntr, s_replies, s_requests, s_mask,
                   s_retry_count, s_defaults>>
    /\ UNCHANGED notScan

\* -------------------------- scan_session_control --------------------------
\* lines 625-631: the for loop and uds.diagnostic_session_control(subfunc_id)
SessionCall ==
    /\ s_scanner = "session"
    /\ s_pc = "loop"
    /\ IF s_id <= s_max
         THEN /\ s_response' \in SessionResponses(s_id)
              /\ s_requests' = Append(s_requests, DiagnosticSessionControlRequest(s_id))
              /\ s_replies' = Append(s_replies, [id |-> s_id, request |-> DiagnosticSessionControlRequest(s_id),
                                                 data |-> s_response'])
              /\ s_pc' = "called"
         ELSE /\ s_pc' = "return"
              /\ UNCHANGED <<s_response, s_requests, s_replies>>
    /\ UNCHANGED <<scanArgs, s_log, scanIntr, s_id, s_found, s_cause, s_queue,
                   s_mask, s_retry_count, s_defaults>>
    /\ UNCHANGED notScan

\* lines 632-636: one retry when no response was received
SessionRetry ==
    /\ s_scanner = "session"
    /\ s_pc = "called"
    /\ IF s_response = None
         THEN /\ s_response' \in SessionResponses(s_id)
              /\ s_requests' = Append(s_requests, DiagnosticSessionControlRequest(s_id))
              /\ s_replies' = Append(s_replies, [id |-> s_id, request |-> DiagnosticSessionControlRequest(s_id),
                                                 data |-> s_response'])
         ELSE UNCHANGED <<s_response, s_requests, s_replies>>
    /\ s_pc' = "classify"
    /\ UNCHANGED <<scanArgs, s_log, scanIntr, s_id, s_found, s_cause, s_queue,
                   s_mask, s_retry_count, s_defaults>>
    /\ UNCHANGED notScan

\* lines 640-659: "record", "skip", or "crash" when the response is too short
\* for the bytes that are read (IndexError)
SessionOutcomeAnyService(r) ==
    IF is_positive_response(r)
      THEN IF r[1] \in DSCValidResponses THEN "record" ELSE "skip"
    ELSE IF r = None THEN "skip"
    ELSE IF Len(r) < 3 THEN "crash"
    ELSE IF r[3] # SUB_FUNCTION_NOT_SUPPORTED THEN "record" ELSE "skip"

SessionOutcome(r) ==
    IF is_positive_response(r)
      THEN IF r[1] \in DSCValidResponses THEN "record" ELSE "skip"
    ELSE IF r = None THEN "skip"
    ELSE IF Len(r) < 2 THEN "crash"
    ELSE IF r[2] # DIAGNOSTIC_SESSION_CONTROL THEN "skip"
    ELSE IF Len(r) < 3 THEN "crash"
    ELSE IF r[3] # SUB_FUNCTION_NOT_SUPPORTED THEN "record" ELSE "skip"

\* a scan that asks for the default session after every recorded positive
\* reply
LeavesAnySession(subfunc_id, r) ==
    /\ is_positive_response(r)
    /\ r[1] \in DSCValidResponses

\* lines 640-644: the conditions under which the default session is
\* requested after a probe
LeavesProgrammingSession(subfunc_id, r) ==
    /\ is_positive_response(r)
    /\ r[1] \in DSCValidResponses
    /\ subfunc_id = PROGRAMMING_SESSION

\* lines 640-659
SessionClassify ==
    /\ s_scanner = "session"
    /\ s_pc = "classify"
    /\ s_log' = Append(s_log, [id |-> s_id, reply |-> s_response])
    /\ LET outcome == SessionOutcome(s_response) IN
         /\ s_found' = IF outcome = "record" THEN Append(s_found, s_id) ELSE s_found
         /\ IF outcome = "crash"
              THEN /\ s_pc' = "crashed"
                   /\ UNCHANGED s_id
              ELSE IF LeavesProgrammingSession(s_id, s_response)
                THEN /\ s_pc' = "default"
                     /\ UNCHANGED s_id
                ELSE /\ s_pc' = "loop"
                     /\ s_id' = s_id + 1
    /\ UNCHANGED <<scanArgs, scanIntr, s_response, s_cause, s_queue,
                   s_replies, s_requests, s_mask, s_retry_count, s_defaults>>
    /\ UNCHANGED notScan

\* lines 644-651: leave the programming session again
SessionDefault ==
    /\ s_scanner = "session"
    /\ s_pc = "default"
    /\ s_requests' = Append(s_requests, DiagnosticSessionControlRequest(DEFAULT_SESSION))
    /\ s_defaults' = s_defaults + 1
    /\ s_id' = s_id + 1
    /\ s_pc' = "loop"
    /\ UNCHANGED <<scanArgs, s_log, scanIntr, s_response, s_found, s_cause, s_queue,
                   s_replies, s_mask, s_retry_count>>
    /\ UNCHANGED notScan

\* -------------------------- scan_routine_control --------------------------
\* lines 566-581: the for loop and uds.routine_control(0x0, routine_id, ...)
RoutineCall ==
    /\ s_scanner = "routine"
    /\ s_pc = "loop"
    /\ IF s_id <= s_max
         THEN /\ s_response' \in RoutineResponses(s_id)
              /\ s_requests' = Append(s_requests, RoutineControlRequest(s_id))
              /\ s_replies' = Append(s_replies, [id |-> s_id, request |-> RoutineControlRequest(s_id),
                                                 data |-> s_response'])
              /\ s_pc' = "called"
         ELSE /\ s_pc' = "return"
              /\ UNCHANGED <<s_response, s_requests, s_replies>>
    /\ UNCHANGED <<scanArgs, s_log, scanIntr, s_id, s_found, s_cause, s_queue,
                   s_mask, s_retry_count, s_defaults>>
    /\ UNCHANGED notScan

\* lines 582-584: one retry when no response was received
RoutineRetry ==
    /\ s_scanner = "routine"
    /\ s_pc = "called"
    /\ IF s_response = None
         THEN /\ s_response' \in RoutineResponses(s_id)
              /\ s_requests' = Append(s_requests, RoutineControlRequest(s_id))
              /\ s_replies' = Append(s_replies, [id |-> s_id, request |-> RoutineControlRequest(s_id),
                                                 data |-> s_response'])
         ELSE UNCHANGED <<s_response, s_requests, s_replies>>
    /\ s_pc' = "classify"
    /\ UNCHANGED <<scanArgs, s_log, scanIntr, s_id, s_found, s_cause, s_queue,
                   s_mask, s_retry_count, s_defaults>>
    /\ UNCHANGED notScan

\* lines 589-606: the entry appended to routine_map, NoEntry when nothing is
\* appended, CrashEntry when a byte is read that the response does not have
NoEntry == <<"none">>
CrashEntry == <<"crash">>
RoutineEntryDeniedAsOpen(routine_id, r) ==
    IF is_positive_response(r)
      THEN IF Len(r) < 4 THEN CrashEntry
           ELSE <<r[3] * 256 + r[4], "?? Success ?? how">>
    ELSE IF r = None THEN NoEntry
    ELSE IF Len(r) < 2 THEN CrashEntry
    ELSE IF r[2] # ROUTINE_CONTROL THEN NoEntry
    ELSE IF Len(r) < 3 THEN CrashEntry
    ELSE IF r[3] = REQUEST_OUT_OF_RANGE THEN NoEntry
    ELSE IF r[3] \in {SUB_FUNCTION_NOT_SUPPORTED, SECURITY_ACCESS_DENIED}
      THEN <<routine_id, "SUPPORTED_NO_SECURITY">>
    ELSE NoEntry

RoutineEntry(routine_id, r) ==
    IF is_positive_response(r)
      THEN IF Len(r) < 4 THEN CrashEntry
           ELSE <<r[3] * 256 + r[4], "?? Success ?? how">>
    ELSE IF r = None THEN NoEntry
    ELSE IF Len(r) < 2 THEN CrashEntry
    ELSE IF r[2] # ROUTINE_CONTROL THEN NoEntry
    ELSE IF Len(r) < 3 THEN CrashEntry
    ELSE IF r[3] = REQUEST_OUT_OF_RANGE THEN NoEntry
    ELSE IF r[3] = SUB_FUNCTION_NOT_SUPPORTED
      THEN <<routine_id, "SUPPORTED_NO_SECURITY">>
    ELSE IF r[3] = SECURITY_ACCESS_DENIED
      THEN <<routine_id, "SUPPORTED_SECURITY_ACCESS_DENIED">>
    ELSE NoEntry

\* lines 589-606
RoutineClassify ==
    /\ s_scanner = "routine"
    /\ s_pc = "classify"
    /\ s_log' = Append(s_log, [id |-> s_id, reply |-> s_response])
    /\ LET entry == RoutineEntry(s_id, s_response) IN
         /\ s_found' = IF entry \in {NoEntry, CrashEntry} THEN s_found
                       ELSE Append(s_found, entry)
         /\ IF entry = CrashEntry
              THEN /\ s_pc' = "crashed"
                   /\ UNCHANGED s_id
              ELSE /\ s_pc' = "loop"
                   /\ s_id' = s_id + 1
    /\ UNCHANGED <<scanArgs, scanIntr, s_response, s_cause, s_queue,
                   s_replies, s_requests, s_mask, s_retry_count, s_defaults>>
    /\ UNCHANGED notScan

\* iso14229_1.py line 516: the arguments, besides self, that
\* input_output_control_by_identifier accepts (identifier, data)
IOCBI_PARAMETERS == 2
\* uds.py lines 467-468 and 470-471: the arguments scan_io_controls passes
\* (did, controlOptionRecord, controlEnableMaskRecord)
IOCBI_ARGUMENTS == 3
\* uds.py line 873: the arguments extended_session accepts
EXTENDED_SESSION_PARAMETERS == 2
\* uds.py line 402: the arguments __ext_service_scan_wrapper passes to it
EXT_SCAN_SESSION_ARGUMENTS == 2
\* uds.py lines 838-839: the arguments __security_seed_wrapper passes to it
SEED_SESSION_ARGUMENTS == 3

\* a call with another number of positional arguments than the function
\* accepts raises TypeError before the body of the function runs
RaisesTypeError(arguments, parameters) == arguments # parameters

\* ------------------ range checks and the commands' entry -----------------
\* lines 400-406 of __ext_service_scan_wrapper: extended_session (lines
\* 873-886) transmits the session-control request; without a positive
\* response the wrapper raises ValueError("Unable to enter extended session")
ExtServiceScanSession ==
    /\ s_scanner = "io"
    /\ s_pc = "ext_session"
    /\ ~RaisesTypeError(EXT_SCAN_SESSION_ARGUMENTS, EXTENDED_SESSION_PARAMETERS)
    /\ s_requests' = Append(s_requests,
                            DiagnosticSessionControlRequest(EXTENDED_DIAGNOSTIC_SESSION))
    /\ s_response' \in SessionResponses(EXTENDED_DIAGNOSTIC_SESSION)
    /\ s_pc' = IF is_positive_response(s_response') THEN "range"
                                                    ELSE "session_error"
    /\ UNCHANGED <<scanArgs, s_log, scanIntr, s_id, s_found, s_cause, s_queue,
                   s_replies, s_mask, s_retry_count, s_defaults>>
    /\ UNCHANGED notScan

\* lines 521-523 of make_did_range (called at line 432) and lines 547-549 of
\* scan_routine_control: ValueError("Can't have MIN > MAX")
ScanRange ==
    /\ s_scanner \in {"routine", "io"}
    /\ s_pc = "range"
    /\ s_pc' = IF s_min > s_max THEN "arg_error" ELSE "loop"
    /\ UNCHANGED <<scanArgs, s_log, scanIntr, s_id, s_response, s_requests,
                   s_found, s_cause, s_queue, s_replies, s_mask,
                   s_retry_count, s_defaults>>
    /\ UNCHANGED notScan

\* ------------------------- __security_seed_wrapper ------------------------
\* seed_list of __security_seed_wrapper is the list of findings
seed_list == s_found

\* lines 836-839: the loop condition and the first statement of the body,
\* extended_session(arb_id_request, arb_id_response, session_type); the call
\* raises TypeError, which neither handler of the wrapper catches
SeedLoop ==
    /\ s_scanner = "seed"
    /\ s_pc = "seed_loop"
    /\ IF num_seeds > Len(seed_list) \/ num_seeds = 0
         THEN /\ RaisesTypeError(SEED_SESSION_ARGUMENTS, EXTENDED_SESSION_PARAMETERS)
              /\ s_pc' = "crashed"
         ELSE s_pc' = "report"
    /\ UNCHANGED <<scanArgs, s_log, scanIntr, s_id, s_response, s_requests,
                   s_found, s_cause, s_queue, s_replies, s_mask,
                   s_retry_count, s_defaults>>
    /\ UNCHANGED notScan

\* lines 867-871: the seeds captured are printed
SeedReport ==
    /\ s_scanner = "seed"
    /\ s_pc = "report"
    /\ s_result' = seed_list
    /\ s_pc' = "reported"
    /\ UNCHANGED <<scanArgs, s_log, s_id, s_response, s_requests, s_found,
                   s_cause, s_queue, s_replies, s_mask, s_retry_count,
                   s_defaults, s_interrupted, s_snapshot, s_sent_snapshot>>
    /\ UNCHANGED notScan

\* ---------------------------- scan_io_controls ----------------------------
\* lines 442-464: the for loop; controlEnableMaskRecord and retry_count are
\* set anew for every data identifier
IoNext ==
    /\ s_scanner = "io"
    /\ s_pc = "loop"
    /\ IF s_id <= s_max
         THEN /\ s_mask' = << >>
              /\ s_retry_count' = RETRY_COUNT
              /\ s_pc' = "while"
         ELSE /\ s_pc' = "return"
              /\ UNCHANGED <<s_mask, s_retry_count>>
    /\ UNCHANGED <<scanArgs, s_log, scanIntr, s_id, s_response, s_found, s_cause,
                   s_queue, s_replies, s_requests, s_defaults>>
    /\ UNCHANGED notScan

\* lines 465-468 and 493: the while loop and
\* uds.input_output_control_by_identifier(did, controlOptionRecord,
\* controlEnableMaskRecord); the call raises TypeError, which no handler of
\* scan_io_controls or of its wrapper catches, so nothing is transmitted
IoCall ==
    /\ s_scanner = "io"
    /\ s_pc = "while"
    /\ IF s_retry_count > 0
         THEN /\ RaisesTypeError(IOCBI_ARGUMENTS, IOCBI_PARAMETERS)
              /\ s_pc' = "crashed"
              /\ UNCHANGED s_id
         ELSE /\ s_id' = s_id + 1
              /\ s_pc' = "loop"
    /\ UNCHANGED <<scanArgs, s_log, scanIntr, s_response, s_requests, s_found,
                   s_cause, s_queue, s_replies, s_mask, s_retry_count,
                   s_defaults>>
    /\ UNCHANGED notScan

\* lines 472-492, which run only after the call has returned: "grow" the
\* mask and retry, or end the attempts with the entry that is appended
\* (NoEntry: nothing; CrashEntry: IndexError)
IoEntry(did, r) ==
    IF is_positive_response(r) THEN <<did, "SUPPORTED_NO_SECURITY">>
    ELSE IF r = None THEN NoEntry
    ELSE IF Len(r) < 3 THEN CrashEntry
    ELSE IF r[3] = INCORRECT_MESSAGE_LENGTH_OR_INVALID_FORMAT THEN <<"grow">>
    ELSE IF r[3] = REQUEST_OUT_OF_RANGE THEN NoEntry
    ELSE IF r[3] = SECURITY_ACCESS_DENIED
      THEN <<did, "SUPPORTED_SECURITY_ACCESS_DENIED">>
    ELSE <<did, "SUPPORTED_NO_SECURITY">>

\* ------------------------------ all scanners ------------------------------
\* the except clause the loop of every scanner runs in catches the interrupt
CatchesKeyboardInterruptNot == FALSE

\* lines 319, 494, 609, 662: except KeyboardInterrupt
CatchesKeyboardInterrupt == TRUE

\* a KeyboardInterrupt raised anywhere inside the try block
ScanInterrupt ==
    /\ s_pc \in {"loop", "recv", "called", "classify", "default", "while"}
    /\ s_interrupted' = TRUE
    /\ s_snapshot' = s_found
    /\ s_sent_snapshot' = Len(s_requests)
    /\ s_pc' = IF CatchesKeyboardInterrupt THEN "return" ELSE "propagated"
    /\ UNCHANGED <<scanArgs, s_log, s_id, s_response, s_found, s_cause, s_queue,
                   s_replies, s_requests, s_mask, s_retry_count, s_defaults,
                   s_result>>
    /\ UNCHANGED notScan

\* lines 322, 500, 612, 665: leave the with blocks and return the list
ScanReturn ==
    /\ s_pc = "return"
    /\ s_result' = s_found
    /\ s_pc' = "returned"
    /\ UNCHANGED <<scanArgs, s_log, s_id, s_response, s_found, s_cause, s_queue,
                   s_replies, s_requests, s_mask, s_retry_count, s_defaults,
                   s_interrupted, s_snapshot, s_sent_snapshot>>
    /\ UNCHANGED notScan

\* the state at the entry of a command
ScanEntry ==
    /\ s_pc = EntryPc(s_scanner)
    /\ s_id = s_min
    /\ s_response = None
    /\ s_found = << >>
    /\ s_cause = << >>
    /\ s_queue = << >>
    /\ s_replies = << >>
    /\ s_requests = << >>
    /\ s_log = << >>
    /\ s_mask = << >>
    /\ s_retry_count = 0
    /\ s_defaults = 0
    /\ s_interrupted = FALSE
    /\ s_snapshot = << >>
    /\ s_sent_snapshot = 0
    /\ s_result = None

\* the sub-function scan has a fixed range (cut at MaxScanSpan); the other
\* scans take -min and -max, which may be inverted; the seed command takes
\* num_seeds and level
InitScanVars ==
    /\ s_scanner \in Commands
    /\ s_min = ScanBase(s_scanner)
    /\ s_max \in CASE s_scanner = "session" -> s_min..(s_min + MaxSessionSpan)
                 [] s_scanner = "seed" -> {s_min}
                 [] OTHER -> (s_min - 1)..(s_min + MaxScanSpan)
    /\ num_seeds \in IF s_scanner = "seed" THEN (-1)..MaxSeeds ELSE {0}
    /\ level \in IF s_scanner = "seed" THEN 0..2 ELSE {0}
    /\ ScanEntry

\* the state when no scanner runs
IdleScan ==
    /\ s_scanner = "none"
    /\ s_min = 0
    /\ s_max = 0
    /\ num_seeds = 0
    /\ level = 0
    /\ ScanEntry

NextScan ==
    \/ ServiceProbe
    \/ ServiceRecv
    \/ SessionCall
    \/ SessionRetry
    \/ SessionClassify
    \/ SessionDefault
    \/ RoutineCall
    \/ RoutineRetry
    \/ RoutineClassify
    \/ ExtServiceScanSession
    \/ ScanRange
    \/ SeedLoop
    \/ SeedReport
    \/ IoNext
    \/ IoCall
    \/ ScanInterrupt
    \/ ScanReturn

(***************************************************************************)
(* The pure functions of iso14229_1.py, each called once on an argument    *)
(***************************************************************************)
\* iso14229_1.py lines 347-355: Iso14229_1.get_service_response_id
get_service_response_id(identifier) == identifier + 64

\* sub_function & 0x7F: the low seven bits
Low7(sub_function) == sub_function % 128

is_valid_send_key_level_unmasked(sub_function) ==
    /\ SEND_KEY_MIN <= sub_function
    /\ sub_function <= SEND_KEY_MAX
    /\ sub_function % 2 = 0

\* iso14229_1.py lines 306-311
is_valid_request_seed_level(sub_function) ==
    LET value == Low7(sub_function) IN
        /\ REQUEST_SEED_MIN <= value
        /\ value <= REQUEST_SEED_MAX
        /\ value % 2 = 1

\* iso14229_1.py lines 313-318
is_valid_send_key_level(sub_function) ==
    LET value == Low7(sub_function) IN
        /\ SEND_KEY_MIN <= value
        /\ value <= SEND_KEY_MAX
        /\ value % 2 = 0

\* iso14229_1.py lines 320-322
get_send_key_for_request_seed(seed) == seed + 1

SAFETY_SYSTEM_DIAGNOSTIC_SESSION == 4
VEHICLE_MANUFACTURER_SESSION_MIN == 64
VEHICLE_MANUFACTURER_SESSION_MAX == 95
SYSTEM_SUPPLIER_SESSION_MIN == 96
SYSTEM_SUPPLIER_SESSION_MAX == 126

is_valid_session_unmasked(sub_function) ==
    \/ sub_function = DEFAULT_SESSION
    \/ sub_function = PROGRAMMING_SESSION
    \/ sub_function = EXTENDED_DIAGNOSTIC_SESSION
    \/ sub_function = SAFETY_SYSTEM_DIAGNOSTIC_SESSION
    \/ (sub_function <= VEHICLE_MANUFACTURER_SESSION_MAX
          /\ sub_function >= VEHICLE_MANUFACTURER_SESSION_MIN)
    \/ (sub_function <= SYSTEM_SUPPLIER_SESSION_MAX
          /\ sub_function >= SYSTEM_SUPPLIER_SESSION_MIN)

\* iso14229_1.py lines 218-234; the masked value is below 128, where "is"
\* on two integers agrees with equality
is_valid_session(sub_function) ==
    LET value == Low7(sub_function) IN
        \/ value = DEFAULT_SESSION
        \/ value = PROGRAMMING_SESSION
        \/ value = EXTENDED_DIAGNOSTIC_SESSION
        \/ value = SAFETY_SYSTEM_DIAGNOSTIC_SESSION
        \/ (value <= VEHICLE_MANUFACTURER_SESSION_MAX
              /\ value >= VEHICLE_MANUFACTURER_SESSION_MIN)
        \/ (value <= SYSTEM_SUPPLIER_SESSION_MAX
              /\ value >= SYSTEM_SUPPLIER_SESSION_MIN)

READ_MEMORY_BY_ADDRESS == 35

\* iso14229_1.py lines 449-451 and 455-457: the loop
\*   for i in range(0, size): request[size + offset - i - 1] = value & 0xFF
\*                            value = value >> 8
\* from iteration i on (request is indexed from 1 here)
RECURSIVE FillBytes(_, _, _, _, _)
FillBytes(request, offset, size, value, i) ==
    IF i >= size THEN request
    ELSE FillBytes([request EXCEPT ![size + offset - i - 1 + 1] = value % 256],
                   offset, size, value \div 256, i + 1)

ReadMemoryByAddressRequestSwapped(address_and_length_format, memory_address, memory_size) ==
    LET address_size_format == address_and_length_format % 16
        data_size_format == (address_and_length_format \div 16) % 16
        zeroes == [k \in 1..(1 + 1 + address_size_format + data_size_format)
                      |-> 0]
        header == [zeroes EXCEPT ![1] = READ_MEMORY_BY_ADDRESS,
                                 ![2] = address_and_length_format]
        with_address == FillBytes(header, 2, address_size_format,
                                  memory_address, 0)
    IN  FillBytes(with_address, 2 + address_size_format, data_size_format,
                  memory_size, 0)

\* iso14229_1.py lines 440-458: the request read_memory_by_address transmits
ReadMemoryByAddressRequest(address_and_length_format, memory_address, memory_size) ==
    LET address_size_format == (address_and_length_format \div 16) % 16
        data_size_format == address_and_length_format % 16
        zeroes == [k \in 1..(1 + 1 + address_size_format + data_size_format)
                      |-> 0]
        header == [zeroes EXCEPT ![1] = READ_MEMORY_BY_ADDRESS,
                                 ![2] = address_and_length_format]
        with_address == FillBytes(header, 2, address_size_format,
                                  memory_address, 0)
    IN  FillBytes(with_address, 2 + address_size_format, data_size_format,
                  memory_size, 0)

\* addressAndLengthFormatIdentifier values, memory addresses and memory sizes
\* given to read_memory_by_address
FnAlfids == {0, 4, 17, 18, 33, 36, 64, 66, 68}
FnAddresses == {0, 68, 13124, 2241348, 287454020}
FnSizes == {0, 102, 21862, 287454020}

ReadDataByIdentifierRequestLowFirst(identifier) ==
    LET num_dids == Len(identifier) IN
        IF num_dids > 0
          THEN [k \in 1..((num_dids * 2) + 1) |->
                   IF k = 1 THEN READ_DATA_BY_IDENTIFIER
                   ELSE IF k % 2 = 0
                     THEN identifier[k \div 2] % 256
                   ELSE (identifier[(k - 1) \div 2] \div 256) % 256]
        ELSE None

\* iso14229_1.py lines 418-426: the request read_data_by_identifier
\* transmits, None when it transmits nothing; request[i * 2 + 1] and
\* request[i * 2 + 2] of the code are elements 2i + 2 and 2i + 3 here
ReadDataByIdentifierRequest(identifier) ==
    LET num_dids == Len(identifier) IN
        IF num_dids > 0
          THEN [k \in 1..((num_dids * 2) + 1) |->
                   IF k = 1 THEN READ_DATA_BY_IDENTIFIER
                   ELSE IF k % 2 = 0
                     THEN (identifier[k \div 2] \div 256) % 256
                   ELSE identifier[(k - 1) \div 2] % 256]
        ELSE None

\* data identifiers given to read_data_by_identifier
FnDids == {1, 61836, 61840, 65535}

\* uds.py lines 502-534: the identifiers make_did_range yields, as the
\* sequence of the chained ranges <<first, last>> in order, or the exception
\* it raises; bounds is << >> when neither -min nor -max is given and
\* <<min_id, max_id>> when both are
make_did_range(is_oem, is_supplier, is_safety, bounds) ==
    LET oem == IF is_oem
                 THEN << <<256, 42495>>, <<43008, 44287>>, <<45056, 45567>>,
                         <<49664, 49919>>, <<52992, 61439>> >>
               ELSE << >>
        supplier == IF is_supplier THEN oem \o << <<61440, 65279>> >>
                    ELSE oem
        safety == IF is_safety
                    THEN supplier \o << <<61440, 65279>>, <<64025, 64255>> >>
                  ELSE supplier
    IN  IF bounds # << >>
          THEN IF bounds[1] > bounds[2]
                 THEN [raised |-> "ValueError", id_range |-> << >>]
               ELSE LET clamped_min == IF bounds[1] < 0 THEN 0 ELSE bounds[1]
                        clamped_max == IF bounds[2] > 65535 THEN 65535
                                       ELSE bounds[2]
                    IN  [raised |-> "none",
                         id_range |->
                             safety \o << <<clamped_min, clamped_max>> >>]
        ELSE IF ~is_oem /\ ~is_supplier
          THEN [raised |-> "none", id_range |-> << <<0, 65535>> >>]
        ELSE [raised |-> "none", id_range |-> safety]

\* uds.py lines 538-557: routine_id_range of scan_routine_control, as the
\* sequence of the chained ranges <<first, last>> in order, or the exception
\* raised; bounds is << >> when neither -min nor -max is given and
\* <<min_id, max_id>> when both are
routine_id_range(is_oem, is_supplier, bounds) ==
    LET oem == IF is_oem THEN << <<512, 57343>> >> ELSE << >>
        supplier == IF is_supplier THEN oem \o << <<61440, 65279>> >>
                    ELSE oem
    IN  IF bounds # << >>
          THEN IF bounds[1] > bounds[2]
                 THEN [raised |-> "ValueError", id_range |-> << >>]
               ELSE LET clamped_min == IF bounds[1] < 0 THEN 0 ELSE bounds[1]
                        clamped_max == IF bounds[2] > 65535 THEN 65535
                                       ELSE bounds[2]
                    IN  [raised |-> "none",
                         id_range |->
                             supplier \o << <<clamped_min, clamped_max>> >>]
        ELSE IF ~is_oem /\ ~is_supplier
          THEN [raised |-> "none", id_range |-> << <<0, 65535>> >>]
        ELSE [raised |-> "none", id_range |-> supplier]

\* the -min and -max values given to make_did_range
FnDidBounds == {<< >>, <<0, 0>>, <<-1, 70000>>, <<5, 3>>, <<64000, 64015>>}

ECU_RESET == 17
HARD_RESET == 1

\* uds.py lines 808-821: print_negative_response reads response[2]
print_negative_response(resp) ==
    IF Len(resp) < 3
      THEN [outcome |-> "none", nrc |-> -1, raised |-> "IndexError"]
    ELSE [outcome |-> "NEGATIVE", nrc |-> resp[3], raised |-> "none"]

\* uds.py lines 770-806: what decode_response reports, or the exception it
\* raises; the message of the mismatch branch is formatted with reset_type,
\* a name that is neither a local nor a global of decode_response
decode_response(resp, expected_response_id, expected_subfunc) ==
    IF resp = None
      THEN [outcome |-> "ABSENT", nrc |-> -1, raised |-> "none"]
    ELSE IF Len(resp) = 0
      THEN [outcome |-> "EMPTY", nrc |-> -1, raised |-> "none"]
    ELSE IF Len(resp) = 1
      THEN [outcome |-> "TRUNCATED", nrc |-> -1, raised |-> "none"]
    ELSE IF is_positive_response(resp)
      THEN IF /\ resp[1] = get_service_response_id(expected_response_id)
              /\ resp[2] = expected_subfunc
             THEN [outcome |-> "POSITIVE", nrc |-> -1, raised |-> "none"]
           ELSE [outcome |-> "none", nrc |-> -1, raised |-> "NameError"]
    ELSE print_negative_response(resp)

\* the bytes the responses given to decode_response are made of
FnDecodeBytes == {HARD_RESET, ECU_RESET, SECURITY_ACCESS_DENIED,
                  ECU_RESET + 64, NR_SI}
FnDecodeResponses == {None} \cup SeqsUpTo(FnDecodeBytes, MaxDecodeLen)

\* the bytes the responses given to is_positive_response are made of
FnBytes == {0, DSC_POSITIVE, NR_SI, BYTE_MAX}
\* absent, empty, or a byte sequence
FnResponses == {None} \cup SeqsUpTo(FnBytes, MaxRespLen)
Bytes == BYTE_MIN..BYTE_MAX

FnNames == {"is_positive_response", "get_service_response_id",
            "security_access_levels", "is_valid_session",
            "read_memory_by_address", "read_data_by_identifier",
            "make_did_range", "decode_response", "routine_id_range"}

FnArgs(fn) ==
    CASE fn = "is_positive_response" -> FnResponses
      [] fn = "read_memory_by_address" ->
             FnAlfids \X FnAddresses \X FnSizes
      [] fn = "read_data_by_identifier" -> SeqsUpTo(FnDids, MaxDids)
      [] fn = "make_did_range" ->
             [is_oem : BOOLEAN, is_supplier : BOOLEAN, is_safety : BOOLEAN,
              bounds : FnDidBounds]
      [] fn = "decode_response" -> FnDecodeResponses
      [] fn = "routine_id_range" ->
             [is_oem : BOOLEAN, is_supplier : BOOLEAN, bounds : FnDidBounds]
      [] OTHER -> Bytes

CallIsPositiveResponse ==
    /\ f_pc = "call"
    /\ f_fn = "is_positive_response"
    /\ f_out' = is_positive_response(f_arg)
    /\ f_pc' = "done"
    /\ UNCHANGED <<f_fn, f_arg>>
    /\ UNCHANGED notFn

CallGetServiceResponseId ==
    /\ f_pc = "call"
    /\ f_fn = "get_service_response_id"
    /\ f_out' = get_service_response_id(f_arg)
    /\ f_pc' = "done"
    /\ UNCHANGED <<f_fn, f_arg>>
    /\ UNCHANGED notFn

\* the three functions of Services.SecurityAccess.RequestSeedOrSendKey on a
\* level and on the level after it
CallSecurityAccessLevels ==
    /\ f_pc = "call"
    /\ f_fn = "security_access_levels"
    /\ f_out' = [valid_seed |-> is_valid_request_seed_level(f_arg),
                 send_key |-> get_send_key_for_request_seed(f_arg),
                 valid_next |-> is_valid_send_key_level(f_arg + 1)]
    /\ f_pc' = "done"
    /\ UNCHANGED <<f_fn, f_arg>>
    /\ UNCHANGED notFn

\* is_valid_session on a session type and on the same type with the
\* suppress-positive-response bit set
CallIsValidSession ==
    /\ f_pc = "call"
    /\ f_fn = "is_valid_session"
    /\ f_out' = [valid |-> is_valid_session(f_arg),
                 valid_flagged |-> is_valid_session(
                     IF f_arg >= 128 THEN f_arg ELSE f_arg + 128)]
    /\ f_pc' = "done"
    /\ UNCHANGED <<f_fn, f_arg>>
    /\ UNCHANGED notFn

\* read_memory_by_address up to the transmission of its request
CallReadMemoryByAddress ==
    /\ f_pc = "call"
    /\ f_fn = "read_memory_by_address"
    /\ f_out' = ReadMemoryByAddressRequest(f_arg[1], f_arg[2], f_arg[3])
    /\ f_pc' = "done"
    /\ UNCHANGED <<f_fn, f_arg>>
    /\ UNCHANGED notFn

\* read_data_by_identifier up to the transmission of its request
CallReadDataByIdentifier ==
    /\ f_pc = "call"
    /\ f_fn = "read_data_by_identifier"
    /\ f_out' = ReadDataByIdentifierRequest(f_arg)
    /\ f_pc' = "done"
    /\ UNCHANGED <<f_fn, f_arg>>
    /\ UNCHANGED notFn

CallMakeDidRange ==
    /\ f_pc = "call"
    /\ f_fn = "make_did_range"
    /\ f_out' = make_did_range(f_arg.is_oem, f_arg.is_supplier,
                               f_arg.is_safety, f_arg.bounds)
    /\ f_pc' = "done"
    /\ UNCHANGED <<f_fn, f_arg>>
    /\ UNCHANGED notFn

\* decode_response as __ecu_reset_wrapper calls it for a hard reset
\* (uds.py line 767)
CallDecodeResponse ==
    /\ f_pc = "call"
    /\ f_fn = "decode_response"
    /\ f_out' = decode_response(f_arg, ECU_RESET, HARD_RESET)
    /\ f_pc' = "done"
    /\ UNCHANGED <<f_fn, f_arg>>
    /\ UNCHANGED notFn

\* scan_routine_control up to the range it is going to probe
CallRoutineIdRange ==
    /\ f_pc = "call"
    /\ f_fn = "routine_id_range"
    /\ f_out' = routine_id_range(f_arg.is_oem, f_arg.is_supplier, f_arg.bounds)
    /\ f_pc' = "done"
    /\ UNCHANGED <<f_fn, f_arg>>
    /\ UNCHANGED notFn

InitFnVars ==
    /\ f_fn \in FnNames
    /\ f_arg \in FnArgs(f_fn)
    /\ f_out = None
    /\ f_pc = "call"

\* the state when no function is called
IdleFn ==
    /\ f_fn = "none"
    /\ f_arg = 0
    /\ f_out = None
    /\ f_pc = "idle"

NextFn ==
    \/ CallIsPositiveResponse
    \/ CallGetServiceResponseId
    \/ CallSecurityAccessLevels
    \/ CallIsValidSession
    \/ CallReadMemoryByAddress
    \/ CallReadDataByIdentifier
    \/ CallMakeDidRange
    \/ CallDecodeResponse
    \/ CallRoutineIdRange

(***************************************************************************)
(* Iso14229_1 instances and their response wait window P3_CLIENT           *)
(***************************************************************************)
\* the instance has no attribute P3_CLIENT; no wait window was used yet
Unset == -1
Clients == 1..MaxClients
\* the timeouts a scan is started with (the -t option)
Timeouts == {1, 7}

\* an assignment that writes the attribute of the class
AssignClassAttribute(class_value, instance_value, timeout) ==
    [class |-> timeout, instance |-> instance_value]

\* uds.py lines 439, 564, 623, 746, 917, 953: uds.P3_CLIENT = timeout, an
\* assignment to an attribute of the instance
AssignP3Client(class_value, instance_value, timeout) ==
    [class |-> class_value, instance |-> timeout]

\* self.P3_CLIENT: the attribute of the instance if it has one, the
\* attribute of the class otherwise
LookupP3Client(c) ==
    IF c_attr[c] # Unset THEN c_attr[c] ELSE P3_CLIENT_class

\* iso14229_1.py lines 338-339: Iso14229_1(tp); __init__ sets self.tp only
ClientCreate(c) ==
    /\ ~c_alive[c]
    /\ c_alive' = [c_alive EXCEPT ![c] = TRUE]
    /\ c_attr' = [c_attr EXCEPT ![c] = Unset]
    /\ c_given' = [c_given EXCEPT ![c] = Unset]
    /\ c_waited' = [c_waited EXCEPT ![c] = Unset]
    /\ UNCHANGED P3_CLIENT_class
    /\ UNCHANGED notClient

\* uds.py lines 621-623 (and the same lines of the other commands): right
\* after the construction, if timeout is not None: uds.P3_CLIENT = timeout
ClientSetTimeout(c) ==
    /\ c_alive[c]
    /\ c_given[c] = Unset
    /\ c_waited[c] = Unset
    /\ \E timeout \in Timeouts :
         LET assigned == AssignP3Client(P3_CLIENT_class, c_attr[c], timeout) IN
             /\ P3_CLIENT_class' = assigned.class
             /\ c_attr' = [c_attr EXCEPT ![c] = assigned.instance]
             /\ c_given' = [c_given EXCEPT ![c] = timeout]
    /\ UNCHANGED <<c_alive, c_waited>>
    /\ UNCHANGED notClient

\* iso14229_1.py line 582 (and the same line of every other request):
\* response = self.receive_response(self.P3_CLIENT)
ClientRequest(c) ==
    /\ c_alive[c]
    /\ c_waited' = [c_waited EXCEPT ![c] = LookupP3Client(c)]
    /\ UNCHANGED <<P3_CLIENT_class, c_alive, c_attr, c_given>>
    /\ UNCHANGED notClient

\* the end of the with block of a scan: the instance is dropped
ClientExit(c) ==
    /\ c_alive[c]
    /\ c_alive' = [c_alive EXCEPT ![c] = FALSE]
    /\ UNCHANGED <<P3_CLIENT_class, c_attr, c_given, c_waited>>
    /\ UNCHANGED notClient

\* iso14229_1.py line 336: P3_CLIENT = 5 in the class body; no instance yet
InitClientVars ==
    /\ P3_CLIENT_class = P3_CLIENT
    /\ c_alive = [c \in Clients |-> FALSE]
    /\ c_attr = [c \in Clients |-> Unset]
    /\ c_given = [c \in Clients |-> Unset]
    /\ c_waited = [c \in Clients |-> Unset]

\* the state when no client is looked at
IdleClient == InitClientVars

NextClient ==
    \/ \E c \in Clients : ClientCreate(c)
    \/ \E c \in Clients : ClientSetTimeout(c)
    \/ \E c \in Clients : ClientRequest(c)
    \/ \E c \in Clients : ClientExit(c)

(***************************************************************************)
(* Specifications                                                          *)
(***************************************************************************)
InitRR == InitRRVars /\ IdleDisc /\ IdleScan /\ IdleFn /\ IdleClient
SpecRR == InitRR /\ [][NextRR]_vars

InitDisc == IdleRR /\ InitDiscVars /\ IdleScan /\ IdleFn /\ IdleClient
SpecDisc == InitDisc /\ [][NextDisc]_vars

InitScan == IdleRR /\ IdleDisc /\ InitScanVars /\ IdleFn /\ IdleClient
SpecScan == InitScan /\ [][NextScan]_vars

InitFn == IdleRR /\ IdleDisc /\ IdleScan /\ InitFnVars /\ IdleClient
SpecFn == InitFn /\ [][NextFn]_vars

InitClient == IdleRR /\ IdleDisc /\ IdleScan /\ IdleFn /\ InitClientVars
SpecClient == InitClient /\ [][NextClient]_vars

(***************************************************************************)
(* Claims about receive_response                                           *)
(***************************************************************************)

\* C1: the value returned by receive_response is never a pending-response
\* message (a negative response with NRC 0x78, the 3-byte form included).
C1_NeverReturnsPending ==
    rr_pc = "done" => ~IsPendingMessage(rr_result)


\* s is any number of pending-response messages followed by at least one
\* non-pending, non-empty message
PendingsThenMessage(s) ==
    \E k \in 1..Len(s) :
        /\ \A i \in 1..(k - 1) : IsPendingMessage(s[i])
        /\ ~IsPendingMessage(s[k])
        /\ s[k] # EmptyMsg

\* the first message of s that is not a pending-response
FirstNonPending(s) ==
    s[CHOOSE k \in 1..Len(s) :
        /\ \A i \in 1..(k - 1) : IsPendingMessage(s[i])
        /\ ~IsPendingMessage(s[k])]

\* C2: when the transport delivers pending-responses followed by a
\* non-pending non-empty message m before the deadline, receive_response
\* returns exactly m.
C2_ReturnsMessageAfterPendings ==
    (rr_pc = "done" /\ ~rr_timedout /\ PendingsThenMessage(tp_script0))
        => rr_result = FirstNonPending(tp_script0)

\* C3: when the transport delivers nothing but pending-responses, for ever,
\* receive_response returns None, through the deadline test of the loop.
C3_PendingForeverReturnsNone ==
    (/\ rr_pc = "done"
     /\ \A i \in 1..Len(tp_script0) : IsPendingMessage(tp_script0[i])
     /\ IsPendingMessage(tp_tail))
        => (rr_result = None /\ rr_timedout)

\* C39: receive_response returns absence only once the time elapsed since
\* its start exceeds wait_window; an absence handed over by the transport
\* before that makes it ask again.
C39_AbsenceOnlyAfterDeadline ==
    (rr_pc = "done" /\ rr_result = None) =>
        (now - start_time) > wait_window

(***************************************************************************)
(* Claims about uds_discovery                                              *)
(***************************************************************************)
FoundIdx == 1..Len(found_arbitration_ids)
d_probes_set == {d_probes[i] : i \in 1..Len(d_probes)}

\* C4: with verification enabled every recorded pair (req, resp) rests on a
\* qualifying reply from resp in the drain window of an outer probe send_id
\* and on a second qualifying reply from resp in the verification window
\* after a re-probe of req, where send_id - 4 <= req <= send_id; a hit whose
\* re-probes stay unanswered is not recorded.
C4_VerifiedPairsRepliedTwice ==
    verify =>
        \A i \in FoundIdx :
            LET req  == found_arbitration_ids[i][1]
                resp == found_arbitration_ids[i][2]
                e    == d_evidence[i]
            IN  /\ e.hit.resp = resp
                /\ e.hit.req \in d_probes_set
                /\ e.vhit.resp = resp
                /\ e.vhit.req = req
                /\ e.hit.req - (VERIFICATION_BACKTRACK - 1) <= req
                /\ req <= e.hit.req

\* C4 witness: a pair recorded after a verification that backtracked
C4_Witness ==
    /\ verify
    /\ Len(found_arbitration_ids) >= 1
    /\ found_arbitration_ids[1][1] < d_evidence[1].hit.req

\* C5 as stated: no recorded pair holds a blacklisted id, neither as request
\* id nor as response id.
C5_NoBlacklistedIdRecorded ==
    \A i \in FoundIdx :
        /\ found_arbitration_ids[i][1] \notin blacklist_args
        /\ found_arbitration_ids[i][2] \notin blacklist_args

\* C5 amended: no recorded pair has a blacklisted response id (the blacklist
\* is applied to the arbitration id of received frames only).
C5_NoBlacklistedResponseRecorded ==
    \A i \in FoundIdx :
        /\ found_arbitration_ids[i][2] \notin blacklist_args
        /\ found_arbitration_ids[i][2] \notin blacklist

\* C5 witness: a pair is recorded by a scan whose blacklist names a
\* response id, after frames were received
C5_Witness ==
    /\ Len(found_arbitration_ids) >= 1
    /\ blacklist_args \cap RespIds # {}
    /\ d_frames >= 2

\* C7 as stated: the outer loop probes request ids in strict ascending order.
C7_OuterProbesStrictlyAscending ==
    \A i, j \in 1..Len(d_probes) : i < j => d_probes[i] < d_probes[j]

\* C7 amended: the outer loop starts at min_id and each probe goes to the id
\* after the previous one, except after a verification that succeeded on a
\* lower id that_id (send_id - 4 <= that_id), where it resumes at
\* that_id + 1; without verification the order is strictly ascending.
C7_OuterProbesAscendingUpToBacktrack ==
    /\ Len(d_probes) >= 1 => d_probes[1] = min_id
    /\ \A i \in 1..(Len(d_probes) - 1) :
          \/ d_probes[i + 1] = d_probes[i] + 1
          \/ /\ verify
             /\ d_probes[i + 1] <= d_probes[i]
             /\ d_probes[i + 1] >= d_probes[i] - (VERIFICATION_BACKTRACK - 1) + 1
             /\ \E k \in FoundIdx :
                   found_arbitration_ids[k][1] + 1 = d_probes[i + 1]
    /\ ~verify => C7_OuterProbesStrictlyAscending

\* C7 witness: the outer loop has probed an id a second time
C7_Witness ==
    \E i \in 1..(Len(d_probes) - 1) : d_probes[i + 1] <= d_probes[i]

\* C9: after a keyboard interrupt during endpoint discovery every pair
\* recorded before the interrupt has been printed (as a "Found diagnostics
\* server" line), so none is lost.
C9_InterruptKeepsRecordedPairs ==
    d_pc = "interrupted" =>
        \A i \in FoundIdx : found_arbitration_ids[i] \in d_printed

\* C9 witness: an interrupt after a pair was recorded
C9_Witness ==
    d_pc = "interrupted" /\ Len(found_arbitration_ids) >= 1

\* C10: max_id < min_id or auto_blacklist_duration < 0 ends the call with an
\* argument error before the transport is opened and before any frame is
\* sent or received, and nothing is found.
C10_ArgumentErrorBeforeBusIO ==
    (max_id < min_id \/ auto_blacklist_duration < 0) =>
        /\ d_pc \in {"args", "valueerror", "interrupted"}
        /\ tp_state = "never"
        /\ ~d_io
        /\ found_arbitration_ids = << >>
        /\ d_probes = << >>
        /\ d_returned = None

\* C10 witness: the call has ended with the argument error, for a negative
\* auto_blacklist_duration and a well-formed range
C10_Witness ==
    /\ d_pc = "valueerror"
    /\ auto_blacklist_duration < 0
    /\ max_id >= min_id

(***************************************************************************)
(* Claims about service_discovery and the sub-scanners (SpecScan)          *)
(***************************************************************************)
\* the server answered the probe of id with [0x7F, id, 0x11]
RepliedServiceNotSupported(id) ==
    \E k \in 1..Len(s_replies) :
        /\ s_replies[k].id = id
        /\ s_replies[k].data = NegativeFrame(id, SERVICE_NOT_SUPPORTED)

\* no recorded service id was answered "service not supported"
C6_NoRecordedIdRepliedNotSupported ==
    s_scanner = "service" =>
        \A i \in 1..Len(s_found) : ~RepliedServiceNotSupported(s_found[i])

\* an id is appended only on a frame of at least 4 bytes whose byte 3 is
\* not 0x11, and it is byte 2 of that frame
C6_AppendedOnlyOnCountingFrame ==
    s_scanner = "service" =>
        /\ Len(s_cause) = Len(s_found)
        /\ \A i \in 1..Len(s_found) :
              /\ Len(s_cause[i]) >= 4
              /\ s_cause[i][4] # SERVICE_NOT_SUPPORTED
              /\ s_cause[i][3] = s_found[i]

\* every probe but 0x22 is answered [0x7F, sid, 0x11], 0x22 is answered
\* [0x7F, 0x22, 0x31], and every answer was received
ScenarioOnly0x22 ==
    /\ s_scanner = "service"
    /\ s_pc = "returned"
    /\ ~s_interrupted
    /\ s_queue = << >>
    /\ READ_DATA_BY_IDENTIFIER \in s_min..s_max
    /\ \A k \in 1..Len(s_replies) :
          s_replies[k].data =
              NegativeFrame(s_replies[k].id,
                            IF s_replies[k].id = READ_DATA_BY_IDENTIFIER
                              THEN REQUEST_OUT_OF_RANGE
                              ELSE SERVICE_NOT_SUPPORTED)

C6_ScenarioResult ==
    ScenarioOnly0x22 => s_result = <<READ_DATA_BY_IDENTIFIER>>

\* C6: the list of service_discovery holds no service id whose reply was
\* [0x7F, id, 0x11]; an id is appended only when a reply of at least 4 frame
\* bytes arrives whose byte 3 differs from 0x11; and when only 0x22 is
\* answered with another code than 0x11 the result is exactly [0x22].
C6_NoServiceNotSupportedIdInResult ==
    /\ C6_NoRecordedIdRepliedNotSupported
    /\ C6_AppendedOnlyOnCountingFrame
    /\ C6_ScenarioResult

C11_ArgumentErrorBeforeSessionControl ==
    s_pc = "arg_error" =>
        \A i \in 1..Len(s_requests) :
            s_requests[i][1] # DIAGNOSTIC_SESSION_CONTROL

\* the three replies the claim classifies
NegativeRoutine(nrc) == <<NR_SI, ROUTINE_CONTROL, nrc>>
RoutineClaimReplies ==
    {NegativeRoutine(SUB_FUNCTION_NOT_SUPPORTED),
     NegativeRoutine(SECURITY_ACCESS_DENIED),
     NegativeRoutine(REQUEST_OUT_OF_RANGE)}

\* the records the claim expects for a log of final replies
RECURSIVE ExpectedRoutineMap(_)
ExpectedRoutineMap(log) ==
    IF log = << >> THEN << >>
    ELSE LET e == Head(log)
             rest == ExpectedRoutineMap(Tail(log))
         IN  IF e.reply = NegativeRoutine(SUB_FUNCTION_NOT_SUPPORTED)
               THEN <<<<e.id, "SUPPORTED_NO_SECURITY">>>> \o rest
             ELSE IF e.reply = NegativeRoutine(SECURITY_ACCESS_DENIED)
               THEN <<<<e.id, "SUPPORTED_SECURITY_ACCESS_DENIED">>>> \o rest
             ELSE rest

\* C12: scan_routine_control classifies the final reply to each routine id:
\* NRC 0x12 for service 0x31 records (rid, SUPPORTED_NO_SECURITY), NRC 0x33
\* records (rid, SUPPORTED_SECURITY_ACCESS_DENIED), NRC 0x31 records nothing;
\* so as long as only these replies were final, routine_map is exactly the
\* list of the records they call for, in probing order.
C12_RoutineClassification ==
    (/\ s_scanner = "routine"
     /\ \A k \in 1..Len(s_log) : s_log[k].reply \in RoutineClaimReplies)
        => s_found = ExpectedRoutineMap(s_log)

\* replies 0x12 for 0x0203, 0x33 for 0x0204 and 0x31 for 0x0205 have yielded
\* [(0x0203, SUPPORTED_NO_SECURITY), (0x0204, SUPPORTED_SECURITY_ACCESS_DENIED)]
C12_Witness ==
    /\ s_scanner = "routine"
    /\ s_pc = "returned"
    /\ s_log = <<[id |-> 515, reply |-> NegativeRoutine(SUB_FUNCTION_NOT_SUPPORTED)],
                 [id |-> 516, reply |-> NegativeRoutine(SECURITY_ACCESS_DENIED)],
                 [id |-> 517, reply |-> NegativeRoutine(REQUEST_OUT_OF_RANGE)]>>
    /\ s_result = <<<<515, "SUPPORTED_NO_SECURITY">>,
                    <<516, "SUPPORTED_SECURITY_ACCESS_DENIED">>>>

\* the final replies for which the claim says a sub-function is recorded
SessionClaimRecords(r) ==
    /\ r # None
    /\ \/ Len(r) >= 1 /\ r[1] = DSC_POSITIVE
       \/ /\ Len(r) >= 3
          /\ r[1] = NR_SI
          /\ r[2] = DIAGNOSTIC_SESSION_CONTROL
          /\ r[3] # SUB_FUNCTION_NOT_SUPPORTED

RECURSIVE ExpectedSubFuncs(_)
ExpectedSubFuncs(log) ==
    IF log = << >> THEN << >>
    ELSE IF SessionClaimRecords(Head(log).reply)
      THEN <<Head(log).id>> \o ExpectedSubFuncs(Tail(log))
    ELSE ExpectedSubFuncs(Tail(log))

IoCallExecuted == s_scanner = "io" /\ s_pc = "crashed"

\* the InputOutputControlByIdentifier requests transmitted for did
IoRequestsFor(did) ==
    SelectSeq(s_requests,
              LAMBDA q : /\ Len(q) >= 3
                         /\ q[1] = INPUT_OUTPUT_CONTROL_BY_IDENTIFIER
                         /\ q[2] * 256 + q[3] = did)

\* [0x2F, did_hi, did_lo], controlOptionRecord [0x00], then n bytes 0xFF
ExpectedIoRequest(did, n) ==
    <<INPUT_OUTPUT_CONTROL_BY_IDENTIFIER, did \div 256, did % 256, 0>>
        \o [j \in 1..n |-> 255]

\* C13: scan_io_controls ends the attempts for a data identifier with
\* exactly one outcome, decided by the final reply (positive, NRC 0x31, NRC
\* 0x33, or another NRC than 0x13): once the scan has stopped without an
\* interrupt, every data identifier of the range has such a final reply.
C13_IoAttemptsEndWithOneOutcome ==
    (/\ s_scanner = "io"
     /\ s_pc \in {"crashed", "returned"}
     /\ ~s_interrupted)
        => \A did \in s_min..s_max :
              \E k \in 1..Len(s_log) :
                  /\ s_log[k].id = did
                  /\ s_log[k].reply # None
                  /\ s_log[k].reply #
                       <<NR_SI, INPUT_OUTPUT_CONTROL_BY_IDENTIFIER,
                         INCORRECT_MESSAGE_LENGTH_OR_INVALID_FORMAT>>

\* C14: each NRC 0x13 reply appends one 0xFF byte to controlEnableMaskRecord
\* and re-issues the request for the same did: after k such replies k + 1
\* requests have been transmitted for the did, the i-th with a mask of i - 1
\* bytes 0xFF.
C14_MaskGrowsByOnePerNrc13 ==
    IoCallExecuted =>
        LET q == IoRequestsFor(s_id) IN
            /\ Len(q) = Len(s_mask) + 1
            /\ \A i \in 1..Len(q) : q[i] = ExpectedIoRequest(s_id, i - 1)

\* C15: the request that scan_io_controls causes to be transmitted is
\* [0x2F, did_hi, did_lo], then the controlOptionRecord bytes, then the
\* controlEnableMaskRecord bytes.
C15_IoRequestLayout ==
    IoCallExecuted =>
        /\ s_requests # << >>
        /\ s_requests[Len(s_requests)] = ExpectedIoRequest(s_id, Len(s_mask))

\* C17: with num_seeds > 0 the seed list never holds more than num_seeds
\* entries, and when every seed request is answered positively the loop
\* ends with exactly num_seeds entries.
C17_SeedListReachesCount ==
    (s_scanner = "seed" /\ num_seeds > 0) =>
        /\ Len(seed_list) <= num_seeds
        /\ (/\ s_pc \in {"crashed", "reported"}
            /\ \A k \in 1..Len(s_log) : is_positive_response(s_log[k].reply))
              => Len(seed_list) = num_seeds

\* C29: the attempts of scan_io_controls for one data identifier start with
\* an empty controlEnableMaskRecord, never build a mask of more than 10
\* bytes, and always terminate with the scanner moving on to the next data
\* identifier: once the scan has stopped without an interrupt it has moved
\* past every identifier of the range.
C29_IoAttemptsTerminateAndMoveOn ==
    s_scanner = "io" =>
        /\ (s_pc = "while" /\ s_retry_count = RETRY_COUNT) => s_mask = << >>
        /\ Len(s_mask) <= 10
        /\ (s_pc \in {"crashed", "returned"} /\ ~s_interrupted) =>
               s_id > s_max

\* the session-control request for sub-function 0x02 is at position i of
\* the transmitted requests
IsProgrammingProbe(i) == s_requests[i] = <<16, 2>>

\* the final reply to the probe of sub-function 0x02 is a positive reply of
\* the service (first byte 0x50)
ProgrammingAnsweredPositively ==
    \E k \in 1..Len(s_log) :
        /\ s_log[k].id = 2
        /\ s_log[k].reply # None
        /\ s_log[k].reply[1] = 80

\* C30: scan_session_control transmits the default-session request
\* [0x10, 0x01] exactly when the probe of sub-function 0x02 was answered
\* positively, directly after the probe of 0x02 and before the probe of 0x03;
\* after any other sub-function, and after 0x02 answered negatively or not at
\* all, the next request is the next probe.
C30_DefaultSessionAfterProgramming ==
    (s_scanner = "session" /\ ~s_interrupted) =>
        /\ s_defaults = IF ProgrammingAnsweredPositively /\ s_pc # "default"
                          THEN 1 ELSE 0
        /\ \A i \in 2..Len(s_requests) :
               /\ (s_requests[i] = <<16, 1>> /\ s_requests[i - 1][2] >= 2) =>
                      /\ ProgrammingAnsweredPositively
                      /\ IsProgrammingProbe(i - 1)
                      /\ i < Len(s_requests) => s_requests[i + 1] = <<16, 3>>
               /\ (/\ IsProgrammingProbe(i - 1)
                   /\ ~IsProgrammingProbe(i)
                   /\ ProgrammingAnsweredPositively) =>
                      s_requests[i] = <<16, 1>>

\* C30 witness: the probe of 0x02 answered positively, the default-session
\* request transmitted, then the probe of 0x03
C30_Witness ==
    /\ s_scanner = "session"
    /\ ProgrammingAnsweredPositively
    /\ s_defaults = 1
    /\ Len(s_requests) >= 3
    /\ s_requests[Len(s_requests)] = <<16, 3>>
    /\ s_requests[Len(s_requests) - 1] = <<16, 1>>
    /\ s_requests[Len(s_requests) - 2] = <<16, 2>>

\* the i-th call of the protocol client is the first one for its identifier
FirstCallFor(i) == i = 1 \/ s_replies[i - 1].id # s_replies[i].id

\* the identifiers named by the findings of the session or routine scan
FoundIds ==
    {IF s_scanner = "session" THEN s_found[k] ELSE s_found[k][1] :
        k \in 1..Len(s_found)}

\* C31 for the session-control and routine-control scans: a first request
\* that gets no reply is followed by one identical request for the same
\* identifier, no identifier gets more than two requests, a request that gets
\* a reply is followed by the request for the next identifier, and an
\* identifier whose two requests both get no reply is not recorded.
C31_SessionRoutineRetryOnce ==
    s_scanner \in {"session", "routine"} =>
        \A i \in 1..Len(s_replies) :
            LET a == s_replies[i] IN
                /\ (FirstCallFor(i) /\ a.data = None
                      /\ (i < Len(s_replies)
                            \/ (s_pc # "called" /\ ~s_interrupted)))
                       => /\ i < Len(s_replies)
                          /\ s_replies[i + 1].id = a.id
                          /\ s_replies[i + 1].request = a.request
                /\ (i < Len(s_replies) /\ (a.data # None \/ ~FirstCallFor(i)))
                       => s_replies[i + 1].id = a.id + 1
                /\ (~FirstCallFor(i) /\ a.data = None) => a.id \notin FoundIds

\* C31: in the session-control, routine-control and I/O-control scans a
\* request that gets no reply is re-sent exactly once with identical content,
\* a request that gets a reply is not re-sent, and after two requests without
\* reply nothing is recorded and the scan goes on to the next identifier; the
\* I/O-control scan transmits a request for every identifier of its range.
C31_AbsentRequestResentOnce ==
    /\ C31_SessionRoutineRetryOnce
    /\ (/\ s_scanner = "io"
        /\ s_pc \in {"crashed", "returned"}
        /\ ~s_interrupted)
           => \A did \in s_min..s_max : IoRequestsFor(did) # << >>

\* a session or routine identifier whose two requests got no reply, after
\* which the next identifier was probed
C31_SessionRoutineWitness ==
    /\ s_scanner \in {"session", "routine"}
    /\ Len(s_replies) >= 3
    /\ s_replies[1].data = None
    /\ s_replies[2].data = None
    /\ s_replies[2].id = s_replies[1].id
    /\ s_replies[3].id = s_replies[1].id + 1

\* C32: the request for the extended session is re-sent exactly once when
\* the first attempt gets no reply, in the ext_service_scan command and in
\* the security-seed loop: a command that gave up entering the session after
\* absence has transmitted the request twice, and the seed loop transmits the
\* request before it does anything else.
C32_ExtendedSessionRetriedOnce ==
    /\ (s_scanner = "io" /\ s_pc = "session_error" /\ s_response = None) =>
           s_requests = <<<<16, 3>>, <<16, 3>>>>
    /\ (s_scanner = "seed" /\ s_pc = "crashed") =>
           (s_requests # << >> /\ s_requests[1] = <<16, 3>>)

\* the seed command has ended before it captured the seeds it was asked for
SeedLoopEndedEarly ==
    /\ s_scanner = "seed"
    /\ s_pc \in {"crashed", "reported"}
    /\ ~s_interrupted
    /\ (num_seeds = 0 \/ Len(seed_list) < num_seeds)

\* C33: a seed loop that ends before it reached its count ended at a seed
\* request that was answered negatively: that request (service 0x27) is the
\* last one transmitted, and the seeds captured before it are reported
\* unchanged.
C33_NegativeSeedReplyEndsLoop ==
    SeedLoopEndedEarly =>
        /\ s_requests # << >>
        /\ s_requests[Len(s_requests)][1] = 39
        /\ s_pc = "reported"
        /\ s_result = seed_list

\* C40: a seed loop whose seed request gets no reply ends in an orderly way,
\* as after a negative reply: no exception ends the command, the seeds
\* captured so far are reported.
C40_SeedAbsenceEndsOrderly ==
    s_scanner = "seed" => s_pc # "crashed"

\* C38: every service id in the list returned by service_discovery was
\* probed by the scan and lies in [min_id, max_id], whatever the replies,
\* positive replies included.
C38_ReturnedServicesWereProbed ==
    (s_scanner = "service" /\ s_pc = "returned") =>
        \A i \in 1..Len(s_result) :
            /\ s_result[i] \in s_min..s_max
            /\ \E k \in 1..Len(s_requests) : s_requests[k] = <<s_result[i]>>

C19_ServiceResponseIdIsByte ==
    (f_fn = "get_service_response_id" /\ f_pc = "done") =>
        /\ f_out = (f_arg + 64) % 256
        /\ f_out \in Bytes

\* C20: for every level L in [0, 0xFF] that is a valid request-seed level,
\* L + 1 is a valid send-key level and get_send_key_for_request_seed(L) is
\* L + 1.
C20_SendKeyLevelFollowsSeedLevel ==
    (/\ f_fn = "security_access_levels"
     /\ f_pc = "done"
     /\ f_out.valid_seed)
        => f_out.valid_next /\ f_out.send_key = f_arg + 1

\* the functions were called on level 0x81, a valid request-seed level with
\* the suppress bit set
C20_Witness ==
    /\ f_fn = "security_access_levels"
    /\ f_pc = "done"
    /\ f_arg = 129
    /\ f_out.valid_seed

\* C21: for every session type s in 0..255, is_valid_session(s) is true
\* exactly when the low seven bits of s are one of 1, 2, 3, 4 or lie in
\* 0x40..0x5F or in 0x60..0x7E, so the answer is the same for s and for
\* s with bit 7 set.
C21_ValidSessionIgnoresBit7 ==
    (f_pc = "done" /\ f_fn = "is_valid_session") =>
        /\ f_out.valid = (\/ (f_arg % 128) \in {1, 2, 3, 4}
                          \/ (f_arg % 128) \in 64..95
                          \/ (f_arg % 128) \in 96..126)
        /\ f_out.valid = f_out.valid_flagged

C21_Witness ==
    /\ f_pc = "done"
    /\ f_fn = "is_valid_session"
    /\ f_arg = 2
    /\ f_out.valid
    /\ f_out.valid_flagged

\* the k-th of the low n bytes of value, most significant first
ByteMsbFirst(value, n, k) == (value \div (256 ^ (n - k))) % 256

\* C22: for an addressAndLengthFormatIdentifier with high nibble a and low
\* nibble s, read_memory_by_address transmits 2 + a + s bytes: 0x23, the
\* identifier, the low a bytes of the address most significant first, then
\* the low s bytes of the size most significant first.
C22_ReadMemoryRequestLayout ==
    (f_pc = "done" /\ f_fn = "read_memory_by_address") =>
        LET a == f_arg[1] \div 16
            s == f_arg[1] % 16
        IN  /\ Len(f_out) = 2 + a + s
            /\ f_out[1] = 35
            /\ f_out[2] = f_arg[1]
            /\ \A k \in 1..a : f_out[2 + k] = ByteMsbFirst(f_arg[2], a, k)
            /\ \A k \in 1..s : f_out[2 + a + k] = ByteMsbFirst(f_arg[3], s, k)

C22_Witness ==
    /\ f_pc = "done"
    /\ f_fn = "read_memory_by_address"
    /\ f_arg = <<66, 287454020, 21862>>
    /\ f_out = <<35, 66, 17, 34, 51, 68, 85, 102>>

\* C23: for a non-empty list of n 16-bit identifiers read_data_by_identifier
\* transmits 1 + 2n bytes, 0x22 followed by the high byte and the low byte of
\* each identifier in list order; for the empty list it transmits nothing.
C23_ReadDataRequestLayout ==
    (f_pc = "done" /\ f_fn = "read_data_by_identifier") =>
        IF f_arg = << >> THEN f_out = None
        ELSE /\ f_out # None
             /\ Len(f_out) = 1 + 2 * Len(f_arg)
             /\ f_out[1] = 34
             /\ \A i \in 1..Len(f_arg) :
                    /\ f_out[2 * i] = f_arg[i] \div 256
                    /\ f_out[2 * i + 1] = f_arg[i] % 256

C23_Witness ==
    /\ f_pc = "done"
    /\ f_fn = "read_data_by_identifier"
    /\ f_arg = <<61840, 61836>>
    /\ f_out = <<34, 241, 144, 241, 140>>

C23_WitnessEmpty ==
    /\ f_pc = "done"
    /\ f_fn = "read_data_by_identifier"
    /\ f_arg = << >>
    /\ f_out = None

\* the identifier is yielded by a sequence of chained ranges
InIdRange(id_range, id) ==
    \E i \in 1..Len(id_range) : id_range[i][1] <= id /\ id <= id_range[i][2]

\* C24: with only the safety preset flag set (no OEM flag, no supplier
\* flag, no explicit bounds) make_did_range yields exactly the identifiers of
\* 0xFA00..0xFA0F and 0xFA19..0xFAFF.
C24_SafetyOnlyRange ==
    (/\ f_pc = "done"
     /\ f_fn = "make_did_range"
     /\ f_arg.is_safety /\ ~f_arg.is_oem /\ ~f_arg.is_supplier
     /\ f_arg.bounds = << >>) =>
        /\ f_out.raised = "none"
        /\ \A id \in 0..65535 :
               InIdRange(f_out.id_range, id)
                   <=> (id \in 64000..64015 \/ id \in 64025..64255)

\* C25: decode_response, called for service 0x11 and sub-function 0x01,
\* classifies every response into exactly one outcome and never fails:
\* absent, empty, one byte (truncated), positive when the first byte is not
\* 0x7F and the first two bytes are 0x51 and 0x01, mismatch when the first
\* byte is not 0x7F otherwise, negative with its code when the first byte is
\* 0x7F; a negative reply of fewer than three bytes is reported, not a
\* failure.
C25_DecodeClassifiesWithoutFailing ==
    (f_pc = "done" /\ f_fn = "decode_response") =>
        /\ f_out.raised = "none"
        /\ f_out.outcome =
             (IF f_arg = None THEN "ABSENT"
              ELSE IF Len(f_arg) = 0 THEN "EMPTY"
              ELSE IF Len(f_arg) = 1 THEN "TRUNCATED"
              ELSE IF f_arg[1] # 127
                THEN IF f_arg[1] = 81 /\ f_arg[2] = 1 THEN "POSITIVE"
                     ELSE "MISMATCH"
              ELSE IF Len(f_arg) < 3 THEN "SHAPE_ERROR"
              ELSE "NEGATIVE")
        /\ f_out.outcome = "NEGATIVE" => f_out.nrc = f_arg[3]

C27_ReprobesDescendAndStop ==
    /\ Len(d_reprobes) <= 5
    /\ \A i \in 1..Len(d_reprobes) : d_reprobes[i] = d_reprobes[1] - (i - 1)
    /\ (d_pc \in {"vtransmit", "vwait"} /\ Len(d_reprobes) >= 1) =>
           d_reprobes[1] = send_arbitration_id
    /\ (d_hit # NoHit /\ d_hit.vreq # NoId) =>
           d_reprobes[Len(d_reprobes)] = d_hit.vreq

\* C27 witness: a verification answered at its third re-probe, after which
\* the outer loop went on
C27_Witness ==
    /\ Len(d_reprobes) = 3
    /\ d_hit.vreq = d_reprobes[3]
    /\ d_pc = "outer"

\* C28: the single-id bus filter is installed during a verification only;
\* at the head of the outer loop, in every drain window and at the return
\* no filter is installed.
C28_FilterOnlyDuringVerification ==
    d_pc \in {"args", "open", "outer", "drain", "return", "done"} =>
        bus_filter = NoId

\* C28 witness: a verification failed after five re-probes, and the outer
\* loop has transmitted its next probe with no filter installed
C28_Witness ==
    /\ d_pc = "drain"
    /\ bus_filter = NoId
    /\ d_hit # NoHit
    /\ d_hit.vreq = NoId
    /\ Len(d_reprobes) = 5
    /\ Len(d_probes) > 1
    /\ d_probes[Len(d_probes)] > d_hit.req

\* C34: the identifiers that scan_routine_control and scan_io_controls go
\* through (in the order of routine_id_range and of make_did_range) are in
\* strict ascending order for every combination of preset flags and -min/-max
\* bounds: each chained range starts above the end of the one before it.
C34_ScanOrderAscending ==
    (f_pc = "done" /\ f_fn \in {"routine_id_range", "make_did_range"}
       /\ f_out.raised = "none") =>
        \A i \in 1..(Len(f_out.id_range) - 1) :
            f_out.id_range[i][2] < f_out.id_range[i + 1][1]

\* C35: the wait window is state of one client: a client on which no timeout
\* was set waits with the default of 5 whatever was set on other clients,
\* created before or after it, and a client on which a timeout was set waits
\* with that timeout.
C35_WaitWindowPerClient ==
    \A c \in Clients :
        c_waited[c] # Unset =>
            c_waited[c] = IF c_given[c] = Unset THEN 5 ELSE c_given[c]

\* C35 witness: a client with a timeout of 7 has waited with 7, and another
\* client, on which none was set, has waited with 5
C35_Witness ==
    \E c, other \in Clients :
        /\ c # other
        /\ c_given[c] = 7
        /\ c_waited[c] = 7
        /\ c_given[other] = Unset
        /\ c_waited[other] = 5

\* C36: every frame uds_discovery transmits, outer probe or verification
\* re-probe, is addressed to an arbitration id in [min_id, max_id], and so is
\* the request id of every recorded pair.
C36_TransmittedIdsInRange ==
    /\ \A i \in 1..Len(d_probes) :
           min_id <= d_probes[i] /\ d_probes[i] <= max_id
    /\ \A i \in 1..Len(d_reprobes) :
           min_id <= d_reprobes[i] /\ d_reprobes[i] <= max_id
    /\ \A i \in 1..Len(found_arbitration_ids) :
           /\ min_id <= found_arbitration_ids[i][1]
           /\ found_arbitration_ids[i][1] <= max_id

\* C37: uds_discovery terminates whatever the bus does: the outer loop moves
\* towards max_id with every probe, so that it transmits at most one probe
\* per id of [min_id, max_id] before it returns.
C37_OuterLoopReachesMaxId ==
    Len(d_probes) <= max_id - min_id + 1

=============================================================================
